---- MODULE Spec2Model ----
(***************************************************************************)
(* HttpClient of the Chaindoc server SDK (src/src/client.ts): the          *)
(* construction of a client, and calls of request() and uploadFiles() on   *)
(* it, against a transport (fetch) that answers each attempt with a        *)
(* response, a thrown failure or nothing until the attempt's timer aborts  *)
(* it.  The variables of a call hold the call that is running; a second    *)
(* call on the same client rests in parked between its handlers.           *)
(***************************************************************************)
EXTENDS Integers, Sequences, FiniteSets, TLC

VARIABLES
    env,          \* what surrounds the client, "full", "small" or "wide": the
                  \* responses and failures the transport can deliver, the
                  \* options callers pass
    config,       \* the ChaindocConfig the constructor was given
    client,       \* "none" (not constructed yet), "constructed" or "threw"
    constructError, \* <<>> or <<what the constructor threw>>
    secretKey,    \* this.secretKey
    timeout,      \* this.timeout
    retryConfig,  \* this.retryConfig: [maxRetries, baseDelayMs, maxDelayMs]
    baseUrl,      \* this.baseUrl
    defaultHeaders, \* this.defaultHeaders
    parked,       \* the locals of the other call on this client
    method,       \* the method running: "none", "request" or "uploadFiles"
    noRetry,      \* options.noRetry of the running request()
    optTimeout,   \* options.timeout of the running request(): <<>> or <<ms>>
    optHeaders,   \* options.headers of the running request(): <<>> or <<object>>
    optMethod,    \* options.method of the running request(): <<>> or <<verb>>
    optBody,      \* options.body of the running request(): <<>> or <<value>>
    pc,           \* "idle", "fetch", "json", "sleep", "returned", "raised"
    maxAttempts,  \* const maxAttempts
    attempt,      \* the loop variable
    lastError,    \* let lastError: <<>> (undefined) or <<ChaindocError>>
    timers,       \* attempt indices whose setTimeout is pending
    aborted,      \* controller.signal.aborted of the current attempt
    inFlight,     \* attempt indices whose fetch() has not settled
    sleeping,     \* <<>> or <<ms>>: the pending this.sleep(ms)
    response,     \* <<>> or <<the Response fetch resolved with>> (this attempt)
    result,       \* <<>> or <<[kind, value, error]>>: how the call ended
    attempts,     \* history: number of fetch() calls issued
    received,     \* history: per resolved attempt, what the transport delivered
    sleepArgs,    \* history: the arguments of getRetryDelay, in order
    deadlines,    \* history: per attempt, the delay its setTimeout was given
    requests,     \* history: per attempt, the url, method and headers given to fetch
    decoded,      \* response.json() has been called on this attempt's response
    forms,        \* history: number of FormData objects constructed
    sent          \* history: per fetch() of uploadFiles, the form it was given

clientVars == <<env, config, client, constructError, secretKey, timeout, retryConfig,
                baseUrl, defaultHeaders>>

callVars == <<method, noRetry, optTimeout, optHeaders, optMethod, optBody, pc, maxAttempts, attempt, lastError,
              timers, aborted, inFlight, sleeping, response, result, attempts,
              received, sleepArgs, deadlines, requests, decoded, forms, sent>>

vars == <<clientVars, parked, callVars>>

(***************************************************************************)
(* Bounds of the model.                                                    *)
(***************************************************************************)
\* maxRetries ranges over 0..MaxRetriesBound
MaxRetriesBound == 2
\* Math.random() ranges over k / RandomDen, k in 0..RandomDen-1
RandomDen == 4

Min(a, b) == IF a < b THEN a ELSE b

RECURSIVE Pow2(_)
\* Math.pow(2, n) for the attempt indices a call can reach
Pow2(n) == IF n <= 0 THEN 1 ELSE 2 * Pow2(n - 1)

\* an optional value: undefined is <<>>, a present value v is <<v>>
Undefined == << >>
Some(v) == <<v>>

\* message.includes(token): messages are sequences of words
Includes(message, token) == \E i \in 1..Len(message) : message[i] = token

(***************************************************************************)
(* The inputs: configurations, responses and transport failures.           *)
(***************************************************************************)
\* (baseDelayMs, maxDelayMs) pairs a client is constructed with
DelayPolicies ==
    { [baseDelayMs |-> 1000, maxDelayMs |-> 10000],
      [baseDelayMs |-> 3,    maxDelayMs |-> 5],
      [baseDelayMs |-> -4,   maxDelayMs |-> 10000] }

RetryConfigs ==
    { [maxRetries |-> r, baseDelayMs |-> p.baseDelayMs, maxDelayMs |-> p.maxDelayMs] :
        r \in 0..MaxRetriesBound, p \in DelayPolicies }

Statuses == {200, 204, 401, 404, 429, 500, 503}

\* what response.json() makes of a body: a rejection, or a decoded value
\* described by what the code inspects of it
JsonValues ==
    { [truthy |-> TRUE,  type |-> "object", hasMessage |-> TRUE,
       messageType |-> "string", message |-> <<"Rate limit exceeded">>],
      [truthy |-> TRUE,  type |-> "object", hasMessage |-> TRUE,
       messageType |-> "number", message |-> <<"42">>],
      [truthy |-> TRUE,  type |-> "object", hasMessage |-> FALSE,
       messageType |-> "undefined", message |-> << >>],
      [truthy |-> FALSE, type |-> "object", hasMessage |-> FALSE,
       messageType |-> "undefined", message |-> << >>] }

\* a body: text that parses to a JSON value, or text that does not parse
Bodies == { [parses |-> TRUE, value |-> Some(v)] : v \in JsonValues }
            \cup { [parses |-> FALSE, value |-> Undefined] }

EmptyBody == [parses |-> FALSE, value |-> Undefined]

\* status, the content-length header being "0", the content-type header
\* including "application/json", and the body
Responses ==
    { [status |-> s, contentLength0 |-> FALSE, jsonType |-> TRUE, body |-> b] :
        s \in Statuses, b \in Bodies }
    \cup
    { [status |-> s, contentLength0 |-> FALSE, jsonType |-> FALSE, body |-> EmptyBody] :
        s \in Statuses }
    \cup
    { [status |-> s, contentLength0 |-> TRUE, jsonType |-> j, body |-> EmptyBody] :
        s \in Statuses, j \in BOOLEAN }

\* what fetch() can reject with besides the abort: Error objects by name
\* and message, and a thrown value that is no Error
NetworkFailures ==
    { [cls |-> "Error", name |-> "Error", message |-> <<"read", "ECONNRESET">>],
      [cls |-> "Error", name |-> "Error", message |-> <<"connect", "ECONNREFUSED">>],
      [cls |-> "Error", name |-> "Error", message |-> <<"connect", "ETIMEDOUT">>],
      [cls |-> "Error", name |-> "Error", message |-> <<"getaddrinfo", "ENOTFOUND">>],
      [cls |-> "Error", name |-> "Error", message |-> <<"getaddrinfo", "EAI_AGAIN">>],
      [cls |-> "Error", name |-> "TypeError", message |-> <<"fetch", "failed">>],
      [cls |-> "value", name |-> "", message |-> <<"socket", "hang", "up">>] }

\* what fetch() rejects with once controller.abort() has run
AbortError ==
    [cls |-> "Error", name |-> "AbortError",
     message |-> <<"This operation was aborted">>]

\* new ChaindocError(message, statusCode, response, isRetryable)
ChaindocError(message, statusCode, resp, isRetryable) ==
    [cls |-> "ChaindocError", name |-> "ChaindocError", message |-> message,
     statusCode |-> statusCode, response |-> resp, isRetryable |-> isRetryable]

\* strings that are cut and joined are sequences of their parts
DEFAULT_BASE_URL == <<"https://", "api.chaindoc.io">>

\* the defaults of the constructor
DEFAULT_TIMEOUT == 30000
DEFAULT_MAX_RETRIES == 3
DEFAULT_BASE_DELAY_MS == 1000
DEFAULT_MAX_DELAY_MS == 10000

\* strings that are inspected by character are sequences of characters
SkPrefix == <<"s", "k", "_">>

\* a faulty prefix test: the prefix may stand anywhere in the string
StartsWithAnywhere(s, prefix) ==
    \E i \in 1..(Len(s) - Len(prefix) + 1) : SubSeq(s, i, i + Len(prefix) - 1) = prefix

\* s.startsWith(prefix)
StartsWith(s, prefix) ==
    Len(s) >= Len(prefix) /\ SubSeq(s, 1, Len(prefix)) = prefix

\* config.secretKey as callers give it: absent, empty, and with and without
\* the prefix
SecretKeys ==
    { Undefined,
      Some(<< >>),
      Some(<<"p", "k", "_", "1">>),
      Some(<<"s", "k">>),
      Some(<<"x", "s", "k", "_">>),
      Some(<<"S", "K", "_", "1">>),
      Some(SkPrefix),
      Some(<<"s", "k", "_", "1">>) }

\* config.timeout: absent or a number of milliseconds
ConfigTimeouts == { Undefined, Some(0), Some(50) }

\* config.retry: absent, or a record of which every field may be absent
ConfigRetries ==
    { Undefined,
      Some([maxRetries |-> Some(1), baseDelayMs |-> Some(3), maxDelayMs |-> Some(5)]),
      Some([maxRetries |-> Some(0), baseDelayMs |-> Undefined, maxDelayMs |-> Undefined]),
      Some([maxRetries |-> Some(1), baseDelayMs |-> Some(0), maxDelayMs |-> Undefined]),
      Some([maxRetries |-> Undefined, baseDelayMs |-> Undefined, maxDelayMs |-> Some(0)]),
      Some([maxRetries |-> Some(-1), baseDelayMs |-> Undefined, maxDelayMs |-> Undefined]) }

\* an object of headers maps names to values; a value is a sequence of its
\* parts.  The object without properties:
NoHeaders == [n \in {} |-> << >>]

\* the object with the one property n: v
Header(n, v) == [m \in {n} |-> v]

\* a faulty spread: a property already present is kept
SpreadKeepsFirst(a, b) ==
    [n \in DOMAIN a \cup DOMAIN b |-> IF n \in DOMAIN a THEN a[n] ELSE b[n]]

\* { ...a, ...b }: the properties of a, and those of b over them
Spread(a, b) ==
    [n \in DOMAIN a \cup DOMAIN b |-> IF n \in DOMAIN b THEN b[n] ELSE a[n]]

\* what ...o spreads when o may be undefined
Properties(o) == IF o = Undefined THEN NoHeaders ELSE o[1]

\* config.headers: absent, a name of its own, and names the client sets
ConfigHeaders ==
    { Undefined,
      Some(Header("X-Request-Source", <<"server">>)),
      Some(Spread(Header("X-Request-Source", <<"server">>),
                  Header("Content-Type", <<"text/plain">>))),
      Some(Header("Authorization", <<"Basic", "abc">>)) }

\* config.baseUrl as the constructor reads it: absent, with and without
\* slashes at the end, and an address that is not https
ConfigBaseUrls ==
    { Undefined,
      Some(<<"https://", "api-demo.chaindoc.io">>),
      Some(<<"https://", "api-demo.chaindoc.io", "/">>),
      Some(<<"https://", "api-demo.chaindoc.io", "/", "/">>),
      Some(<<"http://", "localhost:3000">>) }

\* config.environment
Environments == { Undefined, Some("production"), Some("staging"), Some("development") }

\* the config that leaves every optional field out
PlainConfig ==
    [secretKey |-> Some(<<"s", "k", "_", "1">>), timeout |-> Undefined, retry |-> Undefined,
     headers |-> Undefined, baseUrl |-> Undefined, environment |-> Undefined]

\* a retry policy of one retry, set in full
OneRetry ==
    Some([maxRetries |-> Some(1), baseDelayMs |-> Some(3), maxDelayMs |-> Some(5)])

\* the ChaindocConfig objects a client is constructed from
Configs ==
    { [PlainConfig EXCEPT !.secretKey = k] : k \in SecretKeys }
    \cup
    { [PlainConfig EXCEPT !.timeout = t, !.retry = r] :
        t \in ConfigTimeouts, r \in ConfigRetries }
    \cup
    { [PlainConfig EXCEPT !.retry = OneRetry, !.headers = h, !.baseUrl = b] :
        h \in ConfigHeaders, b \in ConfigBaseUrls }
    \cup
    { [PlainConfig EXCEPT !.retry = OneRetry, !.environment = e] : e \in Environments }

\* options.timeout as callers of request() give it
OptionTimeouts == { Undefined, Some(0), Some(7) }

\* options.headers: absent, a name the config sets too, names the client
\* sets, and a name of its own
OptionHeaders ==
    { Undefined,
      Some(Header("X-Request-Source", <<"call">>)),
      Some(Spread(Header("Content-Type", <<"text/csv">>),
                  Header("Accept", <<"text/csv">>))),
      Some(Header("Authorization", <<"Token", "xyz">>)) }

\* options.method
OptionMethods == { Undefined, Some("DELETE") }

\* the values a body can be, by type and text: numbers, booleans, strings,
\* null and an object
BodyValues ==
    { [type |-> "number", text |-> "0"],
      [type |-> "number", text |-> "7"],
      [type |-> "boolean", text |-> "false"],
      [type |-> "string", text |-> ""],
      [type |-> "null", text |-> "null"],
      [type |-> "object", text |-> "{\"name\":\"Contract\"}"] }

\* options.body as post() and put() pass it on: absent, or a value
OptionBodies == { Undefined } \cup { Some(v) : v \in BodyValues }

\* the truth of a value in a condition: 0, false, "" and null are falsy
Truthy(v) ==
    CASE v.type = "number" -> v.text # "0"
      [] v.type = "boolean" -> v.text = "true"
      [] v.type = "string" -> v.text # ""
      [] v.type = "null" -> FALSE
      [] v.type = "object" -> TRUE

\* JSON.stringify(v): a string in quotes, every other value by its text
Stringify(v) ==
    IF v.type = "string" THEN <<"\"", v.text, "\"">> ELSE <<v.text>>

\* the options that set nothing but noRetry
PlainOptions(nr) ==
    [noRetry |-> nr, timeout |-> Undefined, headers |-> Undefined, method |-> Undefined,
     body |-> Undefined]

\* the full surroundings: every response and failure, no option but noRetry
FullEnv ==
    [responses |-> Responses, failures |-> NetworkFailures,
     options |-> { PlainOptions(nr) : nr \in BOOLEAN }]

\* small surroundings: two statuses, one decoded value, two failures;
\* every options.timeout
SmallEnv ==
    [responses |->
        { resp \in Responses :
            /\ resp.status \in {200, 503}
            /\ resp.contentLength0 => ~resp.jsonType
            /\ resp.body.parses =>
                 resp.body.value[1].hasMessage /\ resp.body.value[1].messageType = "string" },
     failures |->
        { f \in NetworkFailures :
            f.message \in { <<"read", "ECONNRESET">>, <<"fetch", "failed">>,
                            <<"socket", "hang", "up">> } },
     options |->
        { [PlainOptions(nr) EXCEPT !.timeout = ot] : nr \in BOOLEAN, ot \in OptionTimeouts }]

\* the small surroundings with every option
WideEnv ==
    [SmallEnv EXCEPT !.options =
        @ \cup { [PlainOptions(FALSE) EXCEPT !.headers = h, !.method = m] :
                   h \in OptionHeaders, m \in OptionMethods }
          \cup { [PlainOptions(FALSE) EXCEPT !.method = Some("POST"), !.body = b] :
                   b \in OptionBodies }]

\* the small surroundings with two kinds of call: one without options, one
\* with a timeout, headers and a method of its own
ReuseEnv ==
    [SmallEnv EXCEPT !.options =
        { PlainOptions(FALSE),
          [noRetry |-> FALSE, timeout |-> Some(7),
           headers |-> Some(Header("X-Request-Source", <<"call">>)),
           method |-> Some("DELETE"), body |-> Undefined] }]

\* the surroundings by name
Surroundings(e) ==
    CASE e = "full" -> FullEnv
      [] e = "small" -> SmallEnv
      [] e = "wide" -> WideEnv
      [] e = "reuse" -> ReuseEnv

(***************************************************************************)
(* The pure helpers.                                                       *)
(***************************************************************************)
\* Math.round(x) for x = num / den, den > 0: floor(x + 1/2)
MathRound(num, den) == (2 * num + den) \div (2 * den)

\* a faulty getRetryDelay: the jitter spans half of cappedDelay, not a quarter
getRetryDelayWideJitter(cfg, a, k) ==
    LET exponentialDelay == cfg.baseDelayMs * Pow2(a)
        cappedDelay == Min(exponentialDelay, cfg.maxDelayMs)
    IN  MathRound(cappedDelay * (2 * RandomDen) + cappedDelay * (2 * k - RandomDen),
                  2 * RandomDen)

\* getRetryDelay(attempt) when Math.random() returns k / RandomDen:
\* cappedDelay + cappedDelay * 0.25 * (random * 2 - 1), rounded
getRetryDelay(cfg, a, k) ==
    LET exponentialDelay == cfg.baseDelayMs * Pow2(a)
        cappedDelay == Min(exponentialDelay, cfg.maxDelayMs)
    IN  MathRound(cappedDelay * (4 * RandomDen) + cappedDelay * (2 * k - RandomDen),
                  4 * RandomDen)

\* a faulty list: the DNS temporary failure is missing
networkErrorsWithoutEaiAgain == <<"ECONNRESET", "ECONNREFUSED", "ETIMEDOUT", "ENOTFOUND">>

\* const networkErrors
networkErrors == <<"ECONNRESET", "ECONNREFUSED", "ETIMEDOUT", "ENOTFOUND", "EAI_AGAIN">>

\* a faulty isRetryableError: 429 is not retried
isRetryableErrorWithout429(error, statusCode) ==
    IF statusCode # Undefined /\ statusCode[1] # 0 /\ statusCode[1] >= 500 THEN TRUE
    ELSE IF error # Undefined /\ error[1].cls = "Error"
         THEN (\E i \in 1..Len(networkErrors) : Includes(error[1].message, networkErrors[i]))
              \/ error[1].name = "AbortError"
         ELSE FALSE

\* a faulty isRetryableError: the abort of the deadline is not retried
isRetryableErrorWithoutAbort(error, statusCode) ==
    IF statusCode # Undefined /\ statusCode[1] # 0 /\ statusCode[1] >= 500 THEN TRUE
    ELSE IF statusCode = Some(429) THEN TRUE
    ELSE IF error # Undefined /\ error[1].cls = "Error"
         THEN \E i \in 1..Len(networkErrors) : Includes(error[1].message, networkErrors[i])
         ELSE FALSE

\* isRetryableError(error, statusCode); statusCode is Undefined or <<n>>
isRetryableError(error, statusCode) ==
    IF statusCode # Undefined /\ statusCode[1] # 0 /\ statusCode[1] >= 500 THEN TRUE
    ELSE IF statusCode = Some(429) THEN TRUE
    ELSE IF error # Undefined /\ error[1].cls = "Error"
         THEN (\E i \in 1..Len(networkErrors) : Includes(error[1].message, networkErrors[i]))
              \/ error[1].name = "AbortError"
         ELSE FALSE

\* response.ok
Ok(resp) == resp.status >= 200 /\ resp.status <= 299

(***************************************************************************)
(* The states a run starts from.                                           *)
(***************************************************************************)
\* the locals of a call that has not been made
IdleCall ==
    [method |-> "none", noRetry |-> FALSE, optTimeout |-> Undefined,
     optHeaders |-> Undefined, optMethod |-> Undefined, optBody |-> Undefined,
     pc |-> "idle",
     maxAttempts |-> 0, attempt |-> 0, lastError |-> Undefined, timers |-> {},
     aborted |-> FALSE, inFlight |-> {}, sleeping |-> << >>, response |-> Undefined,
     result |-> Undefined, attempts |-> 0, received |-> << >>, sleepArgs |-> << >>,
     deadlines |-> << >>, requests |-> << >>, decoded |-> FALSE, forms |-> 0,
     sent |-> << >>]

\* no call has been made on the client
Idle ==
    /\ parked = IdleCall
    /\ method = "none"
    /\ noRetry = FALSE
    /\ optTimeout = Undefined
    /\ optHeaders = Undefined
    /\ optMethod = Undefined
    /\ optBody = Undefined
    /\ pc = "idle"
    /\ maxAttempts = 0
    /\ attempt = 0
    /\ lastError = Undefined
    /\ timers = {}
    /\ aborted = FALSE
    /\ inFlight = {}
    /\ sleeping = << >>
    /\ response = Undefined
    /\ result = Undefined
    /\ attempts = 0
    /\ received = << >>
    /\ sleepArgs = << >>
    /\ deadlines = << >>
    /\ requests = << >>
    /\ decoded = FALSE
    /\ forms = 0
    /\ sent = << >>

\* the config that sets every field of rc explicitly
ConfigOf(rc) ==
    [secretKey |-> Some(<<"s", "k", "_", "1">>),
     timeout |-> Undefined,
     retry |-> Some([maxRetries |-> Some(rc.maxRetries),
                     baseDelayMs |-> Some(rc.baseDelayMs),
                     maxDelayMs |-> Some(rc.maxDelayMs)]),
     headers |-> Undefined,
     baseUrl |-> Undefined,
     environment |-> Undefined]

\* faulty default headers: Authorization is set after the config headers
\* are spread, so that the config cannot give it
DefaultHeadersKeyLast(k, h) ==
    Spread(Spread(Header("Content-Type", <<"application/json">>),
                  Properties(h)),
           Header("Authorization", <<"Bearer", k>>))

\* what the constructor leaves in this.defaultHeaders for the key k and the
\* config headers h (lines 54-58)
DefaultHeaders(k, h) ==
    Spread(Spread(Header("Content-Type", <<"application/json">>),
                  Header("Authorization", <<"Bearer", k>>)),
           Properties(h))

\* the state after construction with the retry policy rc in surroundings e
Constructed(e, rc) ==
    /\ env = e
    /\ retryConfig = rc
    /\ config = ConfigOf(rc)
    /\ client = "constructed"
    /\ constructError = Undefined
    /\ secretKey = <<"s", "k", "_", "1">>
    /\ timeout = DEFAULT_TIMEOUT
    /\ baseUrl = DEFAULT_BASE_URL
    /\ defaultHeaders = DefaultHeaders(<<"s", "k", "_", "1">>, Undefined)

(***************************************************************************)
(* The state after construction: a client holding a retry policy, no call  *)
(* started.                                                                *)
(***************************************************************************)
Init ==
    /\ \E rc \in RetryConfigs : Constructed("full", rc)
    /\ Idle

\* before construction: no field of the client is set
InitNew ==
    /\ env = "wide"
    /\ config = Undefined
    /\ client = "none"
    /\ constructError = Undefined
    /\ secretKey = Undefined
    /\ timeout = Undefined
    /\ retryConfig = Undefined
    /\ baseUrl = Undefined
    /\ defaultHeaders = Undefined
    /\ Idle

\* a constructed client in the small surroundings
InitSmall ==
    /\ \E rc \in { c \in RetryConfigs : c.maxRetries <= 1 /\ c.baseDelayMs = 3 } :
         Constructed("small", rc)
    /\ Idle

\* a constructed client of one retry in the surroundings of reuse
InitReuse ==
    /\ \E rc \in { c \in RetryConfigs : c.maxRetries = 1 /\ c.baseDelayMs = 3 } :
         Constructed("reuse", rc)
    /\ Idle

(***************************************************************************)
(* new HttpClient(config)                                                  *)
(***************************************************************************)
\* the constructor throws e: no object is created
ConstructThrows(e) ==
    /\ client' = "threw"
    /\ constructError' = Some(e)
    /\ UNCHANGED <<secretKey, timeout, retryConfig, baseUrl, defaultHeaders>>

\* a faulty default: value || d, a value of 0 giving way to the default
CoalesceFalsy(value, d) == IF value # Undefined /\ value[1] # 0 THEN value[1] ELSE d

\* value ?? d
Coalesce(value, d) == IF value # Undefined THEN value[1] ELSE d

\* a faulty cut: every slash at the end is removed
StripTrailingSlashes(s) ==
    LET keep == { i \in 0..Len(s) : \A j \in (i + 1)..Len(s) : s[j] = "/" }
    IN  SubSeq(s, 1, CHOOSE i \in keep : \A j \in keep : i <= j)

\* s.replace(/\/$/, ""): one slash at the end of s is removed
StripTrailingSlash(s) ==
    IF Len(s) > 0 /\ s[Len(s)] = "/" THEN SubSeq(s, 1, Len(s) - 1) ELSE s

\* a faulty constructor: config.baseUrl is not read
BaseUrlDefaultOnly(c) == DEFAULT_BASE_URL

\* (config.baseUrl ?? DEFAULT_BASE_URL).replace(/\/$/, ""), line 51
BaseUrlOf(c) ==
    StripTrailingSlash(IF c.baseUrl # Undefined THEN c.baseUrl[1] ELSE DEFAULT_BASE_URL)

\* config.retry?.[field]
RetryField(c, field) == IF c.retry # Undefined THEN c.retry[1][field] ELSE Undefined

\* the constructor, lines 42-64
Construct(c) ==
    /\ client = "none"
    /\ config' = c
    /\ IF c.secretKey = Undefined \/ c.secretKey[1] = << >>
       THEN ConstructThrows(ChaindocError(<<"secretKey is required">>,
                                          Undefined, Undefined, FALSE))
       ELSE IF ~StartsWith(c.secretKey[1], SkPrefix)
       THEN ConstructThrows(ChaindocError(<<"secretKey must start with \"sk_\"">>,
                                          Undefined, Undefined, FALSE))
       ELSE /\ client' = "constructed"
            /\ constructError' = Undefined
            /\ baseUrl' = BaseUrlOf(c)
            /\ secretKey' = c.secretKey[1]
            /\ timeout' = Coalesce(c.timeout, DEFAULT_TIMEOUT)
            /\ defaultHeaders' = DefaultHeaders(c.secretKey[1], c.headers)
            /\ retryConfig' =
                 [maxRetries |-> Coalesce(RetryField(c, "maxRetries"), DEFAULT_MAX_RETRIES),
                  baseDelayMs |-> Coalesce(RetryField(c, "baseDelayMs"), DEFAULT_BASE_DELAY_MS),
                  maxDelayMs |-> Coalesce(RetryField(c, "maxDelayMs"), DEFAULT_MAX_DELAY_MS)]
    /\ UNCHANGED <<env, parked, callVars>>

(***************************************************************************)
(* new Chaindoc(config): the class of ./chaindoc, which index.ts exports.  *)
(* It selects the address of the API by config.environment and constructs  *)
(* the HttpClient with it.                                                 *)
(***************************************************************************)
\* the address of the API per environment
EnvironmentUrl(e) ==
    IF e = Undefined \/ e = Some("production")
    THEN <<"https://", "api.chaindoc.io">>
    ELSE <<"https://", "api-demo.chaindoc.io">>

\* the configs of the type ChaindocConfig, which has no baseUrl
ChaindocConfigs == { c \in Configs : c.baseUrl = Undefined }

\* the constructor of Chaindoc: the HttpClient is given the address of the
\* environment
NewChaindoc(c) == Construct([c EXCEPT !.baseUrl = Some(EnvironmentUrl(c.environment))])

(***************************************************************************)
(* How a step of a call ends: in a backoff sleep, a throw out of the call  *)
(* or a return.  Each fixes pc, result, sleeping and sleepArgs.            *)
(***************************************************************************)
\* a faulty backoff: the sleep is not awaited, the loop goes on at once
SleepNotAwaited(k) ==
    /\ pc' = "fetch"
    /\ sleeping' = <<getRetryDelay(retryConfig, attempt, k)>>
    /\ sleepArgs' = Append(sleepArgs, attempt)
    /\ result' = result

\* a faulty backoff: the delay is computed for the next attempt's index
SleepForNextIndex(k) ==
    /\ pc' = "sleep"
    /\ sleeping' = <<getRetryDelay(retryConfig, attempt + 1, k)>>
    /\ sleepArgs' = Append(sleepArgs, attempt + 1)
    /\ result' = result

\* await this.sleep(this.getRetryDelay(attempt)), Math.random() being k / RandomDen
Sleep(k) ==
    /\ pc' = "sleep"
    /\ sleeping' = <<getRetryDelay(retryConfig, attempt, k)>>
    /\ sleepArgs' = Append(sleepArgs, attempt)
    /\ result' = result

\* a throw that leaves the call: the promise rejects with e
Raise(e) ==
    /\ pc' = "raised"
    /\ result' = Some([kind |-> "throw", value |-> Undefined, error |-> Some(e)])
    /\ UNCHANGED <<sleeping, sleepArgs>>

\* return v: the promise resolves with v (Undefined or <<decoded value>>)
Return(v) ==
    /\ pc' = "returned"
    /\ result' = Some([kind |-> "return", value |-> v, error |-> Undefined])
    /\ UNCHANGED <<sleeping, sleepArgs>>

\* what an attempt's resolution is recorded as
GotResponse(resp) == [status |-> Some(resp.status), thrown |-> Undefined]
GotFailure(f) == [status |-> Undefined, thrown |-> Some(f)]

\* a faulty empty-response test: the content-length header is not read
EmptyResponseOnly204(resp) == resp.status = 204

\* response.status === 204 || response.headers.get("content-length") === "0"
EmptyResponse(resp) == resp.status = 204 \/ resp.contentLength0

\* a faulty decode: a body that does not parse becomes null
JsonOrNull(body) ==
    IF body.parses THEN body.value
    ELSE Some([truthy |-> FALSE, type |-> "object", hasMessage |-> FALSE,
               messageType |-> "undefined", message |-> << >>])

\* response.json().catch(() => undefined)
JsonOrUndefined(body) == IF body.parses THEN body.value ELSE Undefined

\* a faulty message test: the type of data.message is not looked at
HasAnyMessage(data) ==
    /\ data # Undefined
    /\ data[1].truthy
    /\ data[1].type = "object"
    /\ data[1].hasMessage

\* data && typeof data === "object" && "message" in data &&
\* typeof data.message === "string"
HasTextMessage(data) ==
    /\ data # Undefined
    /\ data[1].truthy
    /\ data[1].type = "object"
    /\ data[1].hasMessage
    /\ data[1].messageType = "string"

(***************************************************************************)
(* request(endpoint, options)                                              *)
(***************************************************************************)
\* the endpoint a call of request() is given
RequestEndpoint == <<"/api/v1/signatures/sign">>

\* the options of the running request()
Options ==
    [noRetry |-> noRetry, timeout |-> optTimeout, headers |-> optHeaders,
     method |-> optMethod, body |-> optBody]

\* what fetch is given by request(): the url of line 115 and the init
\* object of lines 127-135
RequestInit(options) ==
    [url |-> baseUrl \o RequestEndpoint,
     method |-> IF options.method # Undefined THEN options.method[1] ELSE "GET",
     headers |-> Spread(defaultHeaders, Properties(options.headers)),
     body |-> IF options.body # Undefined /\ Truthy(options.body[1])
              THEN Some(Stringify(options.body[1])) ELSE Undefined]

\* a faulty loop head: options.timeout || this.timeout, a timeout of 0
\* giving way to the client's
RequestLoopFalsyTimeout(a, max, le, options) ==
    /\ attempt' = a
    /\ IF a < max
       THEN /\ timers' = timers \cup {a}
            /\ deadlines' = Append(deadlines,
                                   IF options.timeout # Undefined /\ options.timeout[1] # 0
                                   THEN options.timeout[1] ELSE timeout)
            /\ requests' = Append(requests, RequestInit(options))
            /\ aborted' = FALSE
            /\ decoded' = FALSE
            /\ inFlight' = inFlight \cup {a}
            /\ attempts' = attempts + 1
            /\ pc' = "fetch"
            /\ result' = result
       ELSE /\ pc' = "raised"
            /\ result' = Some([kind |-> "throw", value |-> Undefined,
                               error |-> IF le # Undefined THEN le
                                         ELSE Some(ChaindocError(<<"Request failed after retries">>,
                                                                 Undefined, Undefined, FALSE))])
            /\ UNCHANGED <<timers, deadlines, requests, aborted, decoded, inFlight, attempts>>

\* the head of the for loop at index a: the next attempt is armed and sent,
\* or the loop is left and line 213 throws
RequestLoop(a, max, le, options) ==
    /\ attempt' = a
    /\ IF a < max
       THEN /\ timers' = timers \cup {a}
            /\ deadlines' = Append(deadlines,
                                   IF options.timeout # Undefined THEN options.timeout[1]
                                   ELSE timeout)
            /\ requests' = Append(requests, RequestInit(options))
            /\ aborted' = FALSE
            /\ decoded' = FALSE
            /\ inFlight' = inFlight \cup {a}
            /\ attempts' = attempts + 1
            /\ pc' = "fetch"
            /\ result' = result
       ELSE /\ pc' = "raised"
            /\ result' = Some([kind |-> "throw", value |-> Undefined,
                               error |-> IF le # Undefined THEN le
                                         ELSE Some(ChaindocError(<<"Request failed after retries">>,
                                                                 Undefined, Undefined, FALSE))])
            /\ UNCHANGED <<timers, deadlines, requests, aborted, decoded, inFlight, attempts>>

\* a faulty catch block: clearTimeout(timeoutId) is missing
RequestCatchKeepsTimer(error, le, k) ==
    /\ timers' = timers
    /\ IF error.cls = "ChaindocError"
       THEN IF ~error.isRetryable \/ attempt >= maxAttempts - 1
            THEN lastError' = le /\ Raise(error)
            ELSE lastError' = Some(error) /\ Sleep(k)
       ELSE LET isRetryable == isRetryableError(Some(error), Undefined)
                message == IF error.name = "AbortError" THEN <<"Request timeout">>
                           ELSE error.message
                built == ChaindocError(message, Undefined, Undefined, isRetryable)
            IN  IF error.cls = "Error"
                THEN /\ lastError' = Some(built)
                     /\ IF isRetryable /\ attempt < maxAttempts - 1
                        THEN Sleep(k)
                        ELSE Raise(built)
                ELSE /\ lastError' = le
                     /\ Raise(ChaindocError(<<"Unknown error occurred">>,
                                            Undefined, Undefined, FALSE))

\* a faulty catch block: the test error instanceof Error is missing, every
\* thrown value being wrapped with its own message
RequestCatchAnyValue(error, le, k) ==
    /\ timers' = timers \ {attempt}
    /\ IF error.cls = "ChaindocError"
       THEN IF ~error.isRetryable \/ attempt >= maxAttempts - 1
            THEN lastError' = le /\ Raise(error)
            ELSE lastError' = Some(error) /\ Sleep(k)
       ELSE LET isRetryable == isRetryableError(Some(error), Undefined)
                message == IF error.name = "AbortError" THEN <<"Request timeout">>
                           ELSE error.message
                built == ChaindocError(message, Undefined, Undefined, isRetryable)
            IN  /\ lastError' = Some(built)
                /\ IF isRetryable /\ attempt < maxAttempts - 1
                   THEN Sleep(k)
                   ELSE Raise(built)

\* the catch block of an attempt; le is lastError as the try block left it
RequestCatch(error, le, k) ==
    /\ timers' = timers \ {attempt}
    /\ IF error.cls = "ChaindocError"
       THEN IF ~error.isRetryable \/ attempt >= maxAttempts - 1
            THEN lastError' = le /\ Raise(error)
            ELSE lastError' = Some(error) /\ Sleep(k)
       ELSE LET isRetryable == isRetryableError(Some(error), Undefined)
                message == IF error.name = "AbortError" THEN <<"Request timeout">>
                           ELSE error.message
                built == ChaindocError(message, Undefined, Undefined, isRetryable)
            IN  IF error.cls = "Error"
                THEN /\ lastError' = Some(built)
                     /\ IF isRetryable /\ attempt < maxAttempts - 1
                        THEN Sleep(k)
                        ELSE Raise(built)
                ELSE /\ lastError' = le
                     /\ Raise(ChaindocError(<<"Unknown error occurred">>,
                                            Undefined, Undefined, FALSE))

\* a faulty request(): a status outside 200-299 is raised at once, attempts
\* left or not
RequestHandleRaisesAtOnce(resp, data, k) ==
    IF ~Ok(resp)
    THEN LET errorMessage == IF HasTextMessage(data) THEN data[1].message
                             ELSE <<"Request failed with status", ToString(resp.status)>>
             isRetryable == isRetryableError(Undefined, Some(resp.status))
             built == ChaindocError(errorMessage, Some(resp.status), data, isRetryable)
         IN  /\ lastError' = Some(built)
             /\ timers' = timers \ {attempt}
             /\ Raise(built)
    ELSE /\ Return(data)
         /\ timers' = timers \ {attempt}
         /\ lastError' = lastError

\* the try block from the decoded data on (lines 153-177)
RequestHandle(resp, data, k) ==
    IF ~Ok(resp)
    THEN LET errorMessage == IF HasTextMessage(data) THEN data[1].message
                             ELSE <<"Request failed with status", ToString(resp.status)>>
             isRetryable == isRetryableError(Undefined, Some(resp.status))
             built == ChaindocError(errorMessage, Some(resp.status), data, isRetryable)
         IN  IF isRetryable /\ attempt < maxAttempts - 1
             THEN /\ lastError' = Some(built)
                  /\ timers' = timers \ {attempt}
                  /\ Sleep(k)
             ELSE RequestCatch(built, Some(built), k)
    ELSE /\ Return(data)
         /\ timers' = timers \ {attempt}
         /\ lastError' = lastError

\* a faulty budget: options.noRetry is not read
MaxAttemptsWithoutNoRetry(options) == retryConfig.maxRetries + 1

\* const maxAttempts of request(), line 116
MaxAttempts(options) == IF options.noRetry THEN 1 ELSE retryConfig.maxRetries + 1

\* a faulty request(): a timeout given to the call is stored in the client
RequestStoresTimeout ==
    /\ client = "constructed" /\ pc = "idle"
    /\ \E options \in Surroundings(env).options :
         /\ noRetry' = options.noRetry
         /\ optTimeout' = options.timeout
         /\ optHeaders' = options.headers
         /\ optMethod' = options.method
         /\ optBody' = options.body
         /\ maxAttempts' = MaxAttempts(options)
         /\ timeout' = IF options.timeout # Undefined THEN options.timeout[1] ELSE timeout
         /\ RequestLoop(0, MaxAttempts(options), Undefined, options)
    /\ method' = "request"
    /\ lastError' = Undefined
    /\ UNCHANGED <<env, config, client, constructError, secretKey, retryConfig, baseUrl,
                   defaultHeaders, parked, sleeping, response, received, sleepArgs,
                   forms, sent>>

\* request() is called: lines 114-135, up to the first fetch
Request ==
    /\ client = "constructed" /\ pc = "idle"
    /\ \E options \in Surroundings(env).options :
         /\ noRetry' = options.noRetry
         /\ optTimeout' = options.timeout
         /\ optHeaders' = options.headers
         /\ optMethod' = options.method
         /\ optBody' = options.body
         /\ maxAttempts' = MaxAttempts(options)
         /\ RequestLoop(0, MaxAttempts(options), Undefined, options)
    /\ method' = "request"
    /\ lastError' = Undefined
    /\ UNCHANGED <<clientVars, parked, sleeping, response, received, sleepArgs,
                   forms, sent>>

\* the attempt's timer fires: () => controller.abort()
RequestTimeout ==
    /\ method = "request" /\ pc = "fetch"
    /\ attempt \in timers
    /\ timers' = timers \ {attempt}
    /\ aborted' = TRUE
    /\ UNCHANGED <<clientVars, parked, method, noRetry, optTimeout, optHeaders, optMethod, optBody, pc, maxAttempts,
                   attempt, lastError, inFlight, sleeping, response, result, attempts,
                   received, sleepArgs, deadlines, requests, decoded, forms, sent>>

\* fetch resolves with a response: lines 137-151, to the return of an empty
\* response, to the await of response.json(), or on through lines 153-177
RequestFetchResolved ==
    /\ method = "request" /\ pc = "fetch"
    /\ ~aborted
    /\ \E resp \in Surroundings(env).responses, k \in 0..(RandomDen - 1) :
         /\ response' = Some(resp)
         /\ received' = Append(received, GotResponse(resp))
         /\ inFlight' = inFlight \ {attempt}
         /\ IF EmptyResponse(resp)
            THEN /\ Return(Undefined)
                 /\ timers' = timers \ {attempt}
                 /\ UNCHANGED <<lastError, decoded>>
            ELSE IF resp.jsonType
            THEN /\ pc' = "json"
                 /\ decoded' = TRUE
                 /\ timers' = timers \ {attempt}
                 /\ UNCHANGED <<lastError, result, sleeping, sleepArgs>>
            ELSE /\ RequestHandle(resp, Undefined, k)
                 /\ decoded' = decoded
    /\ UNCHANGED <<clientVars, parked, method, noRetry, optTimeout, optHeaders, optMethod, optBody, maxAttempts, attempt,
                   aborted, attempts, deadlines, requests, forms, sent>>

\* response.json() settles: lines 150-177
RequestJsonSettled ==
    /\ method = "request" /\ pc = "json"
    /\ \E k \in 0..(RandomDen - 1) :
         RequestHandle(response[1], JsonOrUndefined(response[1].body), k)
    /\ UNCHANGED <<clientVars, parked, method, noRetry, optTimeout, optHeaders, optMethod, optBody, maxAttempts, attempt,
                   aborted, inFlight, response, attempts, received, deadlines, requests, decoded,
                   forms, sent>>

\* fetch rejects: the abort's AbortError once the signal is aborted, a
\* transport failure otherwise; lines 178-210
RequestFetchRejected ==
    /\ method = "request" /\ pc = "fetch"
    /\ \E f \in (IF aborted THEN {AbortError} ELSE Surroundings(env).failures),
          k \in 0..(RandomDen - 1) :
         /\ received' = Append(received, GotFailure(f))
         /\ inFlight' = inFlight \ {attempt}
         /\ RequestCatch(f, lastError, k)
    /\ UNCHANGED <<clientVars, parked, method, noRetry, optTimeout, optHeaders, optMethod, optBody, maxAttempts, attempt,
                   aborted, response, attempts, deadlines, requests, decoded, forms, sent>>

\* the backoff sleep is over: continue, attempt++ and the loop head
RequestSleepDone ==
    /\ method = "request" /\ pc = "sleep"
    /\ sleeping' = << >>
    /\ response' = Undefined
    /\ RequestLoop(attempt + 1, maxAttempts, lastError, Options)
    /\ UNCHANGED <<clientVars, parked, method, noRetry, optTimeout, optHeaders, optMethod, optBody, maxAttempts,
                   lastError, received, sleepArgs, forms, sent>>

(***************************************************************************)
(* uploadFiles(endpoint, files, fieldName)                                 *)
(***************************************************************************)
\* the endpoint Media.upload() gives uploadFiles()
UploadEndpoint == <<"/api/v1/media/upload">>

\* a faulty upload: the client's default headers are sent, Content-Type
\* among them
UploadInitDefaultHeaders ==
    [url |-> baseUrl \o UploadEndpoint,
     method |-> "POST",
     headers |-> defaultHeaders]

\* what fetch is given by uploadFiles(): lines 269-276; its body, the form
\* of the attempt, is recorded in sent
UploadInit ==
    [url |-> baseUrl \o UploadEndpoint,
     method |-> "POST",
     headers |-> Header("Authorization", <<"Bearer", secretKey>>)]

\* a faulty loop head: the form is built once, before the loop, and sent
\* again by every attempt
UploadLoopOneForm(a, max, le) ==
    /\ attempt' = a
    /\ IF a < max
       THEN /\ forms' = 1
            /\ timers' = timers \cup {a}
            /\ deadlines' = Append(deadlines, timeout * 2)
            /\ requests' = Append(requests, UploadInit)
            /\ aborted' = FALSE
            /\ decoded' = FALSE
            /\ inFlight' = inFlight \cup {a}
            /\ sent' = Append(sent, 1)
            /\ attempts' = attempts + 1
            /\ pc' = "fetch"
            /\ result' = result
       ELSE /\ pc' = "raised"
            /\ result' = Some([kind |-> "throw", value |-> Undefined,
                               error |-> IF le # Undefined THEN le
                                         ELSE Some(ChaindocError(<<"Upload failed after retries">>,
                                                                 Undefined, Undefined, FALSE))])
            /\ UNCHANGED <<forms, timers, deadlines, requests, aborted, decoded, inFlight, sent, attempts>>

\* the head of the for loop at index a (lines 259-276), or line 352
UploadLoop(a, max, le) ==
    /\ attempt' = a
    /\ IF a < max
       THEN /\ forms' = forms + 1
            /\ timers' = timers \cup {a}
            /\ deadlines' = Append(deadlines, timeout * 2)
            /\ requests' = Append(requests, UploadInit)
            /\ aborted' = FALSE
            /\ decoded' = FALSE
            /\ inFlight' = inFlight \cup {a}
            /\ sent' = Append(sent, forms + 1)
            /\ attempts' = attempts + 1
            /\ pc' = "fetch"
            /\ result' = result
       ELSE /\ pc' = "raised"
            /\ result' = Some([kind |-> "throw", value |-> Undefined,
                               error |-> IF le # Undefined THEN le
                                         ELSE Some(ChaindocError(<<"Upload failed after retries">>,
                                                                 Undefined, Undefined, FALSE))])
            /\ UNCHANGED <<forms, timers, deadlines, requests, aborted, decoded, inFlight, sent, attempts>>

\* a faulty catch block: a failure is retried only when the jittered delay
\* is not below baseDelayMs
UploadCatchWithinDelay(error, le, k) ==
    /\ timers' = timers \ {attempt}
    /\ IF error.cls = "ChaindocError"
       THEN IF ~error.isRetryable \/ attempt >= maxAttempts - 1
            THEN lastError' = le /\ Raise(error)
            ELSE lastError' = Some(error) /\ Sleep(k)
       ELSE LET isRetryable == isRetryableError(Some(error), Undefined)
                message == IF error.name = "AbortError" THEN <<"Upload timeout">>
                           ELSE error.message
                built == ChaindocError(message, Undefined, Undefined, isRetryable)
            IN  IF error.cls = "Error"
                THEN /\ lastError' = Some(built)
                     /\ IF /\ isRetryable /\ attempt < maxAttempts - 1
                           /\ getRetryDelay(retryConfig, attempt, k) >= retryConfig.baseDelayMs
                        THEN Sleep(k)
                        ELSE Raise(built)
                ELSE /\ lastError' = le
                     /\ Raise(ChaindocError(<<"Unknown error occurred">>,
                                            Undefined, Undefined, FALSE))

\* the catch block of an attempt (lines 317-349)
UploadCatch(error, le, k) ==
    /\ timers' = timers \ {attempt}
    /\ IF error.cls = "ChaindocError"
       THEN IF ~error.isRetryable \/ attempt >= maxAttempts - 1
            THEN lastError' = le /\ Raise(error)
            ELSE lastError' = Some(error) /\ Sleep(k)
       ELSE LET isRetryable == isRetryableError(Some(error), Undefined)
                message == IF error.name = "AbortError" THEN <<"Upload timeout">>
                           ELSE error.message
                built == ChaindocError(message, Undefined, Undefined, isRetryable)
            IN  IF error.cls = "Error"
                THEN /\ lastError' = Some(built)
                     /\ IF isRetryable /\ attempt < maxAttempts - 1
                        THEN Sleep(k)
                        ELSE Raise(built)
                ELSE /\ lastError' = le
                     /\ Raise(ChaindocError(<<"Unknown error occurred">>,
                                            Undefined, Undefined, FALSE))

\* a faulty upload: a status outside 200-299 is raised at once, no status
\* being retried
UploadHandleRaisesAtOnce(resp, data, k) ==
    IF ~Ok(resp)
    THEN LET errorMessage == IF HasTextMessage(data) THEN data[1].message
                             ELSE <<"Upload failed with status", ToString(resp.status)>>
             isRetryable == isRetryableError(Undefined, Some(resp.status))
             built == ChaindocError(errorMessage, Some(resp.status), data, isRetryable)
         IN  /\ lastError' = Some(built)
             /\ timers' = timers \ {attempt}
             /\ Raise(built)
    ELSE /\ Return(data)
         /\ timers' = timers \ {attempt}
         /\ lastError' = lastError

\* the try block from the decoded data on (lines 292-316)
UploadHandle(resp, data, k) ==
    IF ~Ok(resp)
    THEN LET errorMessage == IF HasTextMessage(data) THEN data[1].message
                             ELSE <<"Upload failed with status", ToString(resp.status)>>
             isRetryable == isRetryableError(Undefined, Some(resp.status))
             built == ChaindocError(errorMessage, Some(resp.status), data, isRetryable)
         IN  IF isRetryable /\ attempt < maxAttempts - 1
             THEN /\ lastError' = Some(built)
                  /\ timers' = timers \ {attempt}
                  /\ Sleep(k)
             ELSE UploadCatch(built, Some(built), k)
    ELSE /\ Return(data)
         /\ timers' = timers \ {attempt}
         /\ lastError' = lastError

\* uploadFiles() is called: lines 251-276, up to the first fetch
UploadFiles ==
    /\ client = "constructed" /\ pc = "idle"
    /\ method' = "uploadFiles"
    /\ noRetry' = FALSE
    /\ optTimeout' = Undefined
    /\ optHeaders' = Undefined
    /\ optMethod' = Undefined
    /\ optBody' = Undefined
    /\ maxAttempts' = retryConfig.maxRetries + 1
    /\ lastError' = Undefined
    /\ UploadLoop(0, retryConfig.maxRetries + 1, Undefined)
    /\ UNCHANGED <<clientVars, parked, sleeping, response, received, sleepArgs>>

\* the attempt's timer fires: () => controller.abort()
UploadTimeout ==
    /\ method = "uploadFiles" /\ pc = "fetch"
    /\ attempt \in timers
    /\ timers' = timers \ {attempt}
    /\ aborted' = TRUE
    /\ UNCHANGED <<clientVars, parked, method, noRetry, optTimeout, optHeaders, optMethod, optBody, pc, maxAttempts,
                   attempt, lastError, inFlight, sleeping, response, result, attempts,
                   received, sleepArgs, deadlines, requests, decoded, forms, sent>>

\* fetch resolves with a response: lines 278-290 and on
UploadFetchResolved ==
    /\ method = "uploadFiles" /\ pc = "fetch"
    /\ ~aborted
    /\ \E resp \in Surroundings(env).responses, k \in 0..(RandomDen - 1) :
         /\ response' = Some(resp)
         /\ received' = Append(received, GotResponse(resp))
         /\ inFlight' = inFlight \ {attempt}
         /\ IF EmptyResponse(resp)
            THEN /\ Return(Undefined)
                 /\ timers' = timers \ {attempt}
                 /\ UNCHANGED <<lastError, decoded>>
            ELSE IF resp.jsonType
            THEN /\ pc' = "json"
                 /\ decoded' = TRUE
                 /\ timers' = timers \ {attempt}
                 /\ UNCHANGED <<lastError, result, sleeping, sleepArgs>>
            ELSE /\ UploadHandle(resp, Undefined, k)
                 /\ decoded' = decoded
    /\ UNCHANGED <<clientVars, parked, method, noRetry, optTimeout, optHeaders, optMethod, optBody, maxAttempts, attempt,
                   aborted, attempts, deadlines, requests, forms, sent>>

\* response.json() settles: lines 289-316
UploadJsonSettled ==
    /\ method = "uploadFiles" /\ pc = "json"
    /\ \E k \in 0..(RandomDen - 1) :
         UploadHandle(response[1], JsonOrUndefined(response[1].body), k)
    /\ UNCHANGED <<clientVars, parked, method, noRetry, optTimeout, optHeaders, optMethod, optBody, maxAttempts, attempt,
                   aborted, inFlight, response, attempts, received, deadlines, requests, decoded,
                   forms, sent>>

\* fetch rejects: lines 317-349
UploadFetchRejected ==
    /\ method = "uploadFiles" /\ pc = "fetch"
    /\ \E f \in (IF aborted THEN {AbortError} ELSE Surroundings(env).failures),
          k \in 0..(RandomDen - 1) :
         /\ received' = Append(received, GotFailure(f))
         /\ inFlight' = inFlight \ {attempt}
         /\ UploadCatch(f, lastError, k)
    /\ UNCHANGED <<clientVars, parked, method, noRetry, optTimeout, optHeaders, optMethod, optBody, maxAttempts, attempt,
                   aborted, response, attempts, deadlines, requests, decoded, forms, sent>>

\* the backoff sleep is over: continue, attempt++ and the loop head
UploadSleepDone ==
    /\ method = "uploadFiles" /\ pc = "sleep"
    /\ sleeping' = << >>
    /\ response' = Undefined
    /\ UploadLoop(attempt + 1, maxAttempts, lastError)
    /\ UNCHANGED <<clientVars, parked, method, noRetry, optTimeout, optHeaders, optMethod, optBody, maxAttempts,
                   lastError, received, sleepArgs>>

(***************************************************************************)
(* Two calls on one client.  Every variable declared inside request() or   *)
(* uploadFiles() (maxAttempts, lastError, attempt, controller, timeoutId,  *)
(* formData) and every argument belongs to one invocation; between two     *)
(* handlers the event loop may run a handler of the other invocation.      *)
(***************************************************************************)
\* the locals of the running call
Locals ==
    [method |-> method, noRetry |-> noRetry, optTimeout |-> optTimeout,
     optHeaders |-> optHeaders, optMethod |-> optMethod, optBody |-> optBody,
     pc |-> pc,
     maxAttempts |-> maxAttempts, attempt |-> attempt, lastError |-> lastError,
     timers |-> timers, aborted |-> aborted, inFlight |-> inFlight,
     sleeping |-> sleeping, response |-> response, result |-> result,
     attempts |-> attempts, received |-> received, sleepArgs |-> sleepArgs,
     deadlines |-> deadlines, requests |-> requests, decoded |-> decoded,
     forms |-> forms, sent |-> sent]

\* a faulty scoping: attempt is a field of the client, shared by its calls
SwitchSharedAttempt ==
    /\ client = "constructed"
    /\ parked' = Locals
    /\ method' = parked.method
    /\ noRetry' = parked.noRetry
    /\ optTimeout' = parked.optTimeout
    /\ optHeaders' = parked.optHeaders
    /\ optMethod' = parked.optMethod
    /\ optBody' = parked.optBody
    /\ pc' = parked.pc
    /\ maxAttempts' = parked.maxAttempts
    /\ attempt' = attempt
    /\ lastError' = parked.lastError
    /\ timers' = parked.timers
    /\ aborted' = parked.aborted
    /\ inFlight' = parked.inFlight
    /\ sleeping' = parked.sleeping
    /\ response' = parked.response
    /\ result' = parked.result
    /\ attempts' = parked.attempts
    /\ received' = parked.received
    /\ sleepArgs' = parked.sleepArgs
    /\ deadlines' = parked.deadlines
    /\ requests' = parked.requests
    /\ decoded' = parked.decoded
    /\ forms' = parked.forms
    /\ sent' = parked.sent
    /\ UNCHANGED clientVars

\* the next handler to run belongs to the other call: its locals come into
\* scope and those of the running call rest; the fields of the client stay
Switch ==
    /\ client = "constructed"
    /\ parked' = Locals
    /\ method' = parked.method
    /\ noRetry' = parked.noRetry
    /\ optTimeout' = parked.optTimeout
    /\ optHeaders' = parked.optHeaders
    /\ optMethod' = parked.optMethod
    /\ optBody' = parked.optBody
    /\ pc' = parked.pc
    /\ maxAttempts' = parked.maxAttempts
    /\ attempt' = parked.attempt
    /\ lastError' = parked.lastError
    /\ timers' = parked.timers
    /\ aborted' = parked.aborted
    /\ inFlight' = parked.inFlight
    /\ sleeping' = parked.sleeping
    /\ response' = parked.response
    /\ result' = parked.result
    /\ attempts' = parked.attempts
    /\ received' = parked.received
    /\ sleepArgs' = parked.sleepArgs
    /\ deadlines' = parked.deadlines
    /\ requests' = parked.requests
    /\ decoded' = parked.decoded
    /\ forms' = parked.forms
    /\ sent' = parked.sent
    /\ UNCHANGED clientVars

Next ==
    \/ Request
    \/ RequestTimeout
    \/ RequestFetchResolved
    \/ RequestJsonSettled
    \/ RequestFetchRejected
    \/ RequestSleepDone
    \/ UploadFiles
    \/ UploadTimeout
    \/ UploadFetchResolved
    \/ UploadJsonSettled
    \/ UploadFetchRejected
    \/ UploadSleepDone

Spec == Init /\ [][Next]_vars

\* construction and the calls that follow it
NextConstruct ==
    \/ \E c \in Configs : Construct(c)
    \/ Next

SpecConstruct == InitNew /\ [][NextConstruct]_vars

\* a Chaindoc is constructed, then calls are made through its client
NextChaindoc == (\E c \in ChaindocConfigs : NewChaindoc(c)) \/ Next

SpecChaindoc == InitNew /\ [][NextChaindoc]_vars

\* the call has ended and the caller makes the next call on the same client:
\* the locals of the ended call rest in parked, those of the next call are
\* new; one further call is followed
NextCall ==
    /\ client = "constructed"
    /\ pc \in {"returned", "raised"}
    /\ parked = IdleCall
    /\ parked' = Locals
    /\ method' = IdleCall.method
    /\ noRetry' = IdleCall.noRetry
    /\ optTimeout' = IdleCall.optTimeout
    /\ optHeaders' = IdleCall.optHeaders
    /\ optMethod' = IdleCall.optMethod
    /\ optBody' = IdleCall.optBody
    /\ pc' = IdleCall.pc
    /\ maxAttempts' = IdleCall.maxAttempts
    /\ attempt' = IdleCall.attempt
    /\ lastError' = IdleCall.lastError
    /\ timers' = IdleCall.timers
    /\ aborted' = IdleCall.aborted
    /\ inFlight' = IdleCall.inFlight
    /\ sleeping' = IdleCall.sleeping
    /\ response' = IdleCall.response
    /\ result' = IdleCall.result
    /\ attempts' = IdleCall.attempts
    /\ received' = IdleCall.received
    /\ sleepArgs' = IdleCall.sleepArgs
    /\ deadlines' = IdleCall.deadlines
    /\ requests' = IdleCall.requests
    /\ decoded' = IdleCall.decoded
    /\ forms' = IdleCall.forms
    /\ sent' = IdleCall.sent
    /\ UNCHANGED clientVars

\* calls made one after the other on one client
NextReuse == NextCall \/ Next

SpecReuse == InitReuse /\ [][NextReuse]_vars

\* two interleaved calls on one client
NextTwoCalls ==
    \/ Switch
    \/ Next

SpecTwoCalls == InitSmall /\ [][NextTwoCalls]_vars

\* what the runtime guarantees of a started call: a pending timer fires
\* (the deadline of an attempt, the timer of a sleep), and a fetch whose
\* signal is aborted rejects.  Nothing makes the transport deliver a
\* response or the rest of a body.
Fairness ==
    /\ WF_vars(RequestTimeout)
    /\ WF_vars(UploadTimeout)
    /\ WF_vars(RequestSleepDone)
    /\ WF_vars(UploadSleepDone)
    /\ WF_vars(aborted /\ RequestFetchRejected)
    /\ WF_vars(aborted /\ UploadFetchRejected)

SpecFair == InitSmall /\ [][Next]_vars /\ Fairness

(***************************************************************************)
(* Vocabulary of the properties.                                           *)
(***************************************************************************)
Terminal == pc \in {"returned", "raised"}

\* the error the call raised (meaningful when pc = "raised")
RaisedError == result[1].error[1]

\* the current attempt has been answered and its handler has run to the
\* next suspension point or to the end of the call
Handled == attempts > 0 /\ Len(received) = attempts /\ pc \notin {"fetch", "json"}

\* what the current attempt was answered with (meaningful when Handled)
LastReceived == received[Len(received)]

\* the statuses the documentation retries: 5xx and 429
RetryableStatus(s) == s >= 500 \/ s = 429

\* the five transient transport failures the documentation names
TransientFailures ==
    { f \in NetworkFailures :
        /\ f.cls = "Error"
        /\ f.message \in { <<"read", "ECONNRESET">>, <<"connect", "ECONNREFUSED">>,
                            <<"connect", "ETIMEDOUT">>, <<"getaddrinfo", "ENOTFOUND">>,
                            <<"getaddrinfo", "EAI_AGAIN">> } }

\* an attempt's outcome that the specification classifies as retryable
RetryableOutcome(o) ==
    IF o.status # Undefined THEN RetryableStatus(o.status[1])
    ELSE o.thrown[1] = AbortError \/ o.thrown[1] \in TransientFailures

\* an attempt's outcome that the specification classifies as non-retryable
NonRetryableOutcome(o) ==
    IF o.status # Undefined
    THEN (o.status[1] < 200 \/ o.status[1] > 299) /\ ~RetryableStatus(o.status[1])
    ELSE o.thrown[1] # AbortError /\ o.thrown[1] \notin TransientFailures

\* C1: a request() without noRetry whose every attempt receives a 503
\* makes exactly maxRetries+1 attempts and raises the retryable 503 error.
C1_Always503 ==
    (/\ method = "request" /\ ~noRetry /\ Terminal
     /\ \A i \in 1..Len(received) : received[i].status = Some(503))
    => /\ pc = "raised"
       /\ attempts = retryConfig.maxRetries + 1
       /\ RaisedError.statusCode = Some(503)
       /\ RaisedError.isRetryable

\* C2: an attempt answered with a status outside 200-299 never makes the
\* call return: it ends in a backoff sleep or in a raised error of that status.
C2_NonOkNeverReturns ==
    (Handled /\ response # Undefined /\ ~Ok(response[1]))
    => \/ pc = "sleep"
       \/ pc = "raised" /\ RaisedError.statusCode = Some(response[1].status)

\* C3: an attempt that ends in a non-retryable outcome raises that error at
\* once, isRetryable = false, with no sleep and no further attempt.
C3_NonRetryableRaises ==
    (Handled /\ NonRetryableOutcome(LastReceived))
    => /\ pc = "raised"
       /\ ~RaisedError.isRetryable
       /\ RaisedError.statusCode = LastReceived.status
       /\ sleeping = << >>
       /\ Len(sleepArgs) = attempts - 1
       /\ attempts = attempt + 1

\* C4: a request() with noRetry makes exactly one attempt whatever
\* maxRetries is, never sleeps, and raises a retryable failure at once.
C4_NoRetryOneAttempt ==
    (method = "request" /\ noRetry)
    => /\ attempts = 1
       /\ pc # "sleep" /\ sleepArgs = << >>
       /\ (Handled /\ RetryableOutcome(LastReceived))
            => pc = "raised" /\ RaisedError.isRetryable

\* cappedDelay of getRetryDelay(a): min(baseDelayMs * 2^a, maxDelayMs)
Capped(a) == Min(retryConfig.baseDelayMs * Pow2(a), retryConfig.maxDelayMs)

\* what a 2xx response makes the call return
Payload(resp) ==
    IF resp.status = 204 \/ resp.contentLength0 \/ ~resp.jsonType \/ ~resp.body.parses
    THEN Undefined
    ELSE resp.body.value

\* the scenario maxRetries=2, baseDelay=1000, maxDelay=10000
Scenario == retryConfig = [maxRetries |-> 2, baseDelayMs |-> 1000, maxDelayMs |-> 10000]

\* C5: when attempts 0..k-1 ended in retryable failures and attempt k
\* receives a 2xx, the call returns attempt k's payload after exactly k+1
\* attempts and k sleeps, the i-th sleep (from 0) being delay(i); in the
\* scenario the sleeps are within 750..1250 and 1500..2500.
C5_SuccessAfterRetries ==
    /\ (/\ Handled /\ response # Undefined /\ Ok(response[1])
        /\ \A i \in 1..(Len(received) - 1) : RetryableOutcome(received[i]))
       => /\ pc = "returned"
          /\ result = Some([kind |-> "return", value |-> Payload(response[1]),
                            error |-> Undefined])
          /\ attempts = attempt + 1
          /\ sleepArgs = [i \in 1..attempt |-> i - 1]
          /\ sleeping = << >>
          /\ timers = {}
    /\ pc = "sleep"
       => /\ sleepArgs = [i \in 1..(attempt + 1) |-> i - 1]
          /\ \E k \in 0..(RandomDen - 1) :
               sleeping = <<MathRound(Capped(attempt) * (3 * RandomDen + 2 * k),
                                      4 * RandomDen)>>
          /\ (Scenario /\ attempt = 0) => sleeping[1] \in 750..1250
          /\ (Scenario /\ attempt = 1) => sleeping[1] \in 1500..2500

\* a call that failed twice with a 500 and returned on the third attempt
C5_Witness ==
    /\ Scenario /\ pc = "returned" /\ attempts = 3 /\ Len(sleepArgs) = 2
    /\ received = <<[status |-> Some(500), thrown |-> Undefined],
                    [status |-> Some(500), thrown |-> Undefined],
                    [status |-> Some(200), thrown |-> Undefined]>>
    /\ result[1].value # Undefined

\* the message of a timeout on each path
TimeoutMessage == IF method = "request" THEN <<"Request timeout">> ELSE <<"Upload timeout">>

\* every attempt so far ended in the abort of its deadline
AllTimedOut ==
    /\ received # << >>
    /\ \A i \in 1..Len(received) : received[i] = GotFailure(AbortError)

\* C6 as stated: when the deadline expires on every attempt, a call with
\* maxRetries = r makes exactly r+1 attempts and raises the retryable
\* timeout error with no statusCode.
C6_TimeoutEveryAttempt ==
    (Terminal /\ AllTimedOut)
    => /\ attempts = retryConfig.maxRetries + 1
       /\ pc = "raised"
       /\ RaisedError = ChaindocError(TimeoutMessage, Undefined, Undefined, TRUE)

\* C6 amended: the same for a call made without noRetry; a request() with
\* noRetry makes exactly one attempt before raising that error.
C6_TimeoutEveryAttemptAmended ==
    (Terminal /\ AllTimedOut)
    => /\ attempts = IF noRetry THEN 1 ELSE retryConfig.maxRetries + 1
       /\ pc = "raised"
       /\ RaisedError = ChaindocError(TimeoutMessage, Undefined, Undefined, TRUE)

\* a call with maxRetries = 1 that timed out twice and raised
C6_Witness ==
    /\ retryConfig.maxRetries = 1 /\ ~noRetry
    /\ pc = "raised" /\ AllTimedOut /\ attempts = 2

\* C7 as stated: the rounded delay slept after attempt a lies within
\* [0.75 * capped, 1.25 * capped], capped = min(baseDelay * 2^a, maxDelay).
C7_DelayWithinJitter ==
    pc = "sleep"
    => /\ 3 * Capped(attempt) <= 4 * sleeping[1]
       /\ 4 * sleeping[1] <= 5 * Capped(attempt)

Abs(x) == IF x < 0 THEN -x ELSE x

\* C7 amended: the rounded delay differs from capped by at most a quarter
\* of its magnitude plus half a millisecond of rounding; for capped >= 0
\* that is 0.75 * capped - 0.5 <= delay <= 1.25 * capped + 0.5.
C7_DelayWithinJitterRounded ==
    pc = "sleep"
    => 4 * Abs(sleeping[1] - Capped(attempt)) <= Abs(Capped(attempt)) + 2

\* a sleep after the second failed attempt, at the capped delay
C7_Witness ==
    /\ pc = "sleep" /\ attempt = 1
    /\ Capped(attempt) = retryConfig.maxDelayMs
    /\ sleeping[1] # Capped(attempt)

\* the data lines 148-151 (and 287-290) decode from a response
DataOf(resp) == IF resp.jsonType THEN JsonOrUndefined(resp.body) ELSE Undefined

\* the generic message of a status error on each path
StatusMessage(status) ==
    IF method = "request" THEN <<"Request failed with status", ToString(status)>>
    ELSE <<"Upload failed with status", ToString(status)>>

\* the error the specification derives from the current attempt's outcome
ErrorOfLastAttempt ==
    IF LastReceived.status # Undefined
    THEN LET data == DataOf(response[1])
         IN  ChaindocError(IF HasTextMessage(data) THEN data[1].message
                           ELSE StatusMessage(response[1].status),
                           Some(response[1].status), data,
                           RetryableStatus(response[1].status))
    ELSE LET f == LastReceived.thrown[1]
         IN  ChaindocError(IF f = AbortError THEN TimeoutMessage ELSE f.message,
                           Undefined, Undefined,
                           f = AbortError \/ f \in TransientFailures)

\* C8: when every attempt of the budget ended in a retryable failure, the
\* error raised is the one built from the final attempt.
C8_LastErrorRaised ==
    (/\ Terminal /\ attempts = maxAttempts
     /\ \A i \in 1..Len(received) : RetryableOutcome(received[i]))
    => pc = "raised" /\ RaisedError = ErrorOfLastAttempt

\* an error has been built from the response of the current attempt
ErrorBuilt ==
    /\ Handled /\ response # Undefined
    /\ ~Ok(response[1]) /\ ~response[1].contentLength0

\* C9: the error built from a non-2xx response has isRetryable = true iff
\* its status is >= 500 or 429, and exactly those statuses are retried
\* (while attempts remain); every other status is raised with
\* isRetryable = false.
C9_RetryableStatuses ==
    ErrorBuilt
    => /\ lastError # Undefined
       /\ lastError[1].statusCode = Some(response[1].status)
       /\ lastError[1].isRetryable <=> RetryableStatus(response[1].status)
       /\ pc = "sleep" <=> (RetryableStatus(response[1].status)
                             /\ attempt < maxAttempts - 1)
       /\ pc # "sleep" => (pc = "raised" /\ RaisedError = lastError[1])

\* a 429 that is retried and a 404 that is raised at once
C9_Witness ==
    /\ ErrorBuilt /\ Len(received) = 2 /\ pc = "raised"
    /\ received[1].status = Some(429)
    /\ received[2].status = Some(404)
    /\ ~RaisedError.isRetryable

\* the current attempt ended in a transport failure
FailureHandled == Handled /\ LastReceived.thrown # Undefined

\* the error of the current attempt: the one kept for the retry, or raised
CurrentError == IF pc = "sleep" THEN lastError[1] ELSE RaisedError

\* C10: the error of a transport failure has no statusCode, and is
\* retryable iff the failure is the abort signal or one of the five
\* transient classes; any other failure is raised on its own attempt.
C10_TransportFailures ==
    FailureHandled
    => /\ pc \in {"sleep", "raised"}
       /\ CurrentError.statusCode = Undefined
       /\ CurrentError.isRetryable <=>
            (LastReceived.thrown[1] = AbortError
             \/ LastReceived.thrown[1] \in TransientFailures)
       /\ ~CurrentError.isRetryable
            => (pc = "raised" /\ attempts = Len(received))

\* a DNS temporary failure retried, then a non-transient failure raised
C10_Witness ==
    /\ FailureHandled /\ Len(received) = 2 /\ pc = "raised"
    /\ received[1].thrown # Undefined
    /\ Includes(received[1].thrown[1].message, "EAI_AGAIN")
    /\ received[2].thrown # Undefined
    /\ received[2].thrown[1].message = <<"fetch", "failed">>
    /\ ~RaisedError.isRetryable

(***************************************************************************)
(* C11.  Within one call the attempts are strictly sequential: at most one *)
(* fetch is in flight at any moment, and while attempt a is in flight      *)
(* every earlier attempt has resolved (a resolutions received) and every   *)
(* backoff sleep has finished (a sleeps taken, none pending); outside an   *)
(* attempt nothing is in flight.                                           *)
(***************************************************************************)
C11_Sequential ==
    /\ Cardinality(inFlight) <= 1
    /\ attempts = Len(received) + Cardinality(inFlight)
    /\ IF pc = "fetch"
       THEN /\ inFlight = {attempt}
            /\ attempts = attempt + 1
            /\ sleeping = << >>
            /\ Len(sleepArgs) = attempt
       ELSE inFlight = {}

\* the second attempt is in flight, after the first resolved and its sleep
C11_Witness ==
    /\ pc = "fetch"
    /\ attempt = 1
    /\ inFlight = {1}
    /\ Len(received) = 1
    /\ sleepArgs = <<0>>

(***************************************************************************)
(* What a call does alone, as a function of its own arguments, the client  *)
(* and the outcomes its own attempts received.  L is the locals of a call. *)
(***************************************************************************)
\* maxAttempts of the call
BudgetOf(L) ==
    IF L.method = "request" /\ L.noRetry THEN 1 ELSE retryConfig.maxRetries + 1

\* the delay every attempt of the call is armed with
DeadlineOf(L) ==
    IF L.method = "uploadFiles" THEN 2 * timeout
    ELSE IF L.optTimeout # Undefined THEN L.optTimeout[1]
    ELSE timeout

\* the error the call makes of a response with a status outside 200-299
ErrorOfResponse(m, resp) ==
    LET data == IF resp.jsonType /\ resp.body.parses THEN resp.body.value ELSE Undefined
        generic == IF m = "request" THEN "Request failed with status"
                   ELSE "Upload failed with status"
    IN  ChaindocError(IF HasTextMessage(data) THEN data[1].message
                      ELSE <<generic, ToString(resp.status)>>,
                      Some(resp.status), data, RetryableStatus(resp.status))

\* the error the call makes of what fetch rejected with
ErrorOfFailure(m, f) ==
    IF f.cls # "Error"
    THEN ChaindocError(<<"Unknown error occurred">>, Undefined, Undefined, FALSE)
    ELSE IF f = AbortError
    THEN ChaindocError(IF m = "request" THEN <<"Request timeout">> ELSE <<"Upload timeout">>,
                       Undefined, Undefined, TRUE)
    ELSE ChaindocError(f.message, Undefined, Undefined, f \in TransientFailures)

\* the outcome o of an attempt makes the call go on when an attempt is left
GoesOn(o) ==
    IF o.status # Undefined THEN RetryableStatus(o.status[1])
    ELSE ErrorOfFailure("request", o.thrown[1]).isRetryable

\* the response resp ends the call with a return
Returns(resp) == resp.status = 204 \/ resp.contentLength0 \/ Ok(resp)

\* the call L is in a state of a run made alone against L.received
Alone(L) ==
    LET n == Len(L.received)
        last == L.received[n]
        settled == IF L.pc \in {"fetch", "sleep"} THEN n ELSE n - 1
        slept == IF L.pc = "sleep" THEN n ELSE L.attempts - 1
    IN  IF L.method = "none" THEN L = IdleCall
        ELSE
        /\ L.maxAttempts = BudgetOf(L)
        /\ L.attempts = IF L.pc = "fetch" THEN n + 1 ELSE n
        /\ L.attempts \in 1..BudgetOf(L)
        /\ L.attempt = L.attempts - 1
        /\ \A i \in 1..settled : GoesOn(L.received[i]) /\ i < BudgetOf(L)
        /\ L.sleepArgs = [i \in 1..slept |-> i - 1]
        /\ L.deadlines = [i \in 1..L.attempts |-> DeadlineOf(L)]
        /\ L.inFlight = IF L.pc = "fetch" THEN {L.attempt} ELSE {}
        /\ L.timers = IF L.pc = "fetch" /\ ~L.aborted THEN {L.attempt} ELSE {}
        /\ L.forms = IF L.method = "uploadFiles" THEN L.attempts ELSE 0
        /\ L.sent = IF L.method = "uploadFiles" THEN [i \in 1..L.attempts |-> i] ELSE << >>
        /\ (L.pc = "sleep") = (L.sleeping # << >>)
        /\ L.pc = "fetch" =>
             /\ L.response = Undefined /\ L.result = Undefined
             /\ L.lastError = Undefined <=> n = 0
             /\ n > 0 => L.lastError[1].statusCode = last.status
        /\ L.pc = "json" =>
             /\ L.result = Undefined
             /\ last.status = Some(L.response[1].status)
             /\ L.response[1].jsonType /\ L.decoded
             /\ L.response[1].status # 204 /\ ~L.response[1].contentLength0
        /\ L.pc = "sleep" =>
             /\ L.result = Undefined
             /\ \E k \in 0..(RandomDen - 1) :
                  L.sleeping = <<getRetryDelay(retryConfig, L.attempt, k)>>
             /\ L.lastError = Some(IF last.status # Undefined
                                   THEN ErrorOfResponse(L.method, L.response[1])
                                   ELSE ErrorOfFailure(L.method, last.thrown[1]))
        /\ L.pc = "returned" =>
             /\ last.status = Some(L.response[1].status)
             /\ Returns(L.response[1])
             /\ L.result = Some([kind |-> "return", value |-> Payload(L.response[1]),
                                 error |-> Undefined])
        /\ L.pc = "raised" =>
             /\ ~GoesOn(last) \/ n = BudgetOf(L)
             /\ L.result = Some([kind |-> "throw", value |-> Undefined,
                                 error |-> Some(IF last.status # Undefined
                                                THEN ErrorOfResponse(L.method, L.response[1])
                                                ELSE ErrorOfFailure(L.method, last.thrown[1]))])
             /\ last.status # Undefined => ~Returns(L.response[1])

\* C12: two interleaved calls on one client are independent: at every
\* moment each call, the running one and the resting one, is in a state of
\* a run made alone against the outcomes its own attempts received, with
\* its own attempts, sleeps, deadlines, timers, last error and outcome.
C12_Independent == client = "constructed" => Alone(Locals) /\ Alone(parked)

\* both calls have ended after retries that interleaved: an upload that
\* raised after two attempts rests while a request has returned after two
C12_Witness ==
    /\ parked.method = "uploadFiles" /\ parked.pc = "raised" /\ parked.attempts = 2
    /\ method = "request" /\ pc = "returned" /\ attempts = 2
    /\ received[1].status = Some(503) /\ parked.received[1].thrown # Undefined

\* C13: every started call eventually completes provided timers fire, even
\* if the transport never delivers a response or stalls while delivering
\* the response body.
C13_Completes == (pc # "idle") ~> Terminal

\* C13, the part that holds: a call that waits for fetch() to settle
\* leaves that wait, the deadline aborting what the transport leaves open
C13_FetchEnds == (pc = "fetch") ~> (pc # "fetch")

\* the secret key the constructor was given is present, not empty, and
\* begins with the characters s, k, _
KeyHasPrefix ==
    /\ config.secretKey # Undefined
    /\ Len(config.secretKey[1]) >= 3
    /\ config.secretKey[1][1] = "s"
    /\ config.secretKey[1][2] = "k"
    /\ config.secretKey[1][3] = "_"

\* C14: constructing with no secret key, or with one that does not start
\* with "sk_", throws an error and leaves no client: no call is ever made,
\* so no network call; every key that starts with "sk_" is accepted, the
\* bare prefix included.
C14_KeyValidated ==
    client # "none"
    => IF KeyHasPrefix
       THEN /\ client = "constructed"
            /\ constructError = Undefined
            /\ secretKey = config.secretKey[1]
       ELSE /\ client = "threw"
            /\ constructError # Undefined
            /\ constructError[1].cls = "ChaindocError"
            /\ method = "none" /\ pc = "idle" /\ attempts = 0
            /\ parked = IdleCall

\* a key that holds the prefix but does not start with it was refused
C14_Witness ==
    /\ client = "threw"
    /\ config.secretKey = Some(<<"x", "s", "k", "_">>)
    /\ constructError[1].message = <<"secretKey must start with \"sk_\"">>

\* the bare prefix was accepted and a call was made with the client
C14_WitnessAccepted ==
    /\ client = "constructed"
    /\ config.secretKey = Some(SkPrefix)
    /\ attempts > 0

\* C15: a response with status 204, or a 2xx response with content-length
\* 0, makes the call return undefined at once, response.json() not being
\* called, whatever the content-type says.
C15_EmptyReturnsUndefined ==
    (/\ response # Undefined
     /\ response[1].status = 204 \/ (Ok(response[1]) /\ response[1].contentLength0))
    => /\ pc = "returned"
       /\ result = Some([kind |-> "return", value |-> Undefined, error |-> Undefined])
       /\ ~decoded
       /\ attempts = Len(received)

\* a 200 with content-length 0 and a JSON content-type was returned as
\* undefined on the second attempt
C15_Witness ==
    /\ pc = "returned" /\ attempts = 2
    /\ response[1].status = 200 /\ response[1].contentLength0 /\ response[1].jsonType
    /\ result[1].value = Undefined

\* C16: a 2xx response whose content-type is not JSON, or whose JSON body
\* does not decode, makes the call return undefined: nothing is raised, no
\* error is kept, no sleep and no further attempt follow.
C16_UndecodableReturnsUndefined ==
    (/\ Handled /\ response # Undefined /\ Ok(response[1])
     /\ ~response[1].jsonType \/ ~response[1].body.parses)
    => /\ pc = "returned"
       /\ result = Some([kind |-> "return", value |-> Undefined, error |-> Undefined])
       /\ sleeping = << >>
       /\ attempts = Len(received)
       /\ lastError = Undefined \/ lastError[1].statusCode # Some(response[1].status)

\* a 200 with a JSON content-type whose body did not decode was returned
\* as undefined, response.json() having been called
C16_Witness ==
    /\ pc = "returned" /\ decoded
    /\ response[1].status = 200 /\ response[1].jsonType /\ ~response[1].body.parses
    /\ result[1].value = Undefined

\* the decoded body of a response: absent when the content-type is not
\* JSON or the body does not decode
DecodedBody(resp) ==
    IF resp.jsonType /\ resp.body.parses THEN resp.body.value ELSE Undefined

\* the message field of the decoded body when it is present and a string
BodyMessage(resp) ==
    IF /\ resp.jsonType /\ resp.body.parses
       /\ resp.body.value[1].hasMessage
       /\ resp.body.value[1].messageType = "string"
    THEN Some(resp.body.value[1].message)
    ELSE Undefined

\* C17 as stated: the error built from a non-2xx response, on both paths,
\* has statusCode = the status, response = the decoded body, and message =
\* the body's message when present and a string, otherwise the generic
\* message "Request failed with status N".
C17_StatusErrorFields ==
    ErrorBuilt
    => /\ CurrentError.statusCode = Some(response[1].status)
       /\ CurrentError.response = DecodedBody(response[1])
       /\ CurrentError.message =
            IF BodyMessage(response[1]) # Undefined THEN BodyMessage(response[1])[1]
            ELSE <<"Request failed with status", ToString(response[1].status)>>

\* C17 amended: the same, the generic message being "Request failed with
\* status N" for request() and "Upload failed with status N" for
\* uploadFiles().
C17_StatusErrorFieldsByPath ==
    ErrorBuilt
    => /\ CurrentError.statusCode = Some(response[1].status)
       /\ CurrentError.response = DecodedBody(response[1])
       /\ CurrentError.message =
            IF BodyMessage(response[1]) # Undefined THEN BodyMessage(response[1])[1]
            ELSE IF method = "request"
            THEN <<"Request failed with status", ToString(response[1].status)>>
            ELSE <<"Upload failed with status", ToString(response[1].status)>>

\* an upload raised the generic message for a 404 whose decoded body holds
\* a message that is not a string
C17_Witness ==
    /\ method = "uploadFiles" /\ pc = "raised" /\ ErrorBuilt
    /\ response[1].status = 404
    /\ response[1].jsonType /\ response[1].body.parses
    /\ response[1].body.value[1].hasMessage
    /\ RaisedError.message = <<"Upload failed with status", "404">>
    /\ RaisedError.response = response[1].body.value

\* C18: uploadFiles() builds a new form on every attempt: as many forms
\* have been constructed as attempts made, and the body the a-th fetch was
\* given is the form constructed in the a-th attempt; request() builds none.
C18_FreshFormPerAttempt ==
    IF method = "uploadFiles"
    THEN /\ forms = attempts
         /\ sent = [i \in 1..attempts |-> i]
    ELSE forms = 0 /\ sent = << >>

\* an upload that made three attempts sent three forms
C18_Witness ==
    /\ method = "uploadFiles" /\ Terminal
    /\ attempts = 3 /\ forms = 3 /\ sent = <<1, 2, 3>>

\* C19: uploadFiles() always has the full budget of maxRetries+1 attempts,
\* nothing disabling its retries, and when every attempt ends in a
\* retryable failure it makes exactly maxRetries+1 attempts and then raises.
C19_UploadFullBudget ==
    method = "uploadFiles"
    => /\ maxAttempts = retryConfig.maxRetries + 1
       /\ ~noRetry
       /\ (Terminal /\ \A i \in 1..Len(received) : RetryableOutcome(received[i]))
            => (pc = "raised" /\ attempts = retryConfig.maxRetries + 1)

\* C20: every attempt is armed with its own deadline when it starts: for
\* request() the options.timeout of the call when given, otherwise the
\* client's timeout; for uploadFiles() twice the client's timeout; the same
\* for every attempt of the call, whatever went before.
C20_DeadlinePerAttempt ==
    (client = "constructed" /\ method # "none")
    => /\ Len(deadlines) = attempts
       /\ \A i \in 1..attempts :
            deadlines[i] = IF method = "uploadFiles" THEN 2 * timeout
                           ELSE IF optTimeout = Undefined THEN timeout
                           ELSE optTimeout[1]
       /\ (pc = "fetch" /\ ~aborted) => attempt \in timers

\* a request() given timeout 0 on a client of timeout 50 armed its second
\* attempt with 0 again
C20_Witness ==
    /\ client = "constructed" /\ timeout = 50
    /\ method = "request" /\ optTimeout = Some(0)
    /\ pc = "fetch" /\ attempt = 1 /\ deadlines = <<0, 0>>

\* an upload on a client of timeout 50 armed its second attempt with 100
C20_WitnessUpload ==
    /\ client = "constructed" /\ timeout = 50
    /\ method = "uploadFiles"
    /\ pc = "fetch" /\ attempt = 1 /\ deadlines = <<100, 100>>

(***************************************************************************)
(* The request given to fetch.                                             *)
(***************************************************************************)
\* the headers the config and the running call name
ConfigHeadersOf == Properties(config.headers)
CallHeadersOf == Properties(optHeaders)

\* C21: the headers of every attempt of request() carry the names of the
\* client's defaults, of the config and of the call; a name the call gives
\* has the call's value, else a name the config gives has the config's
\* value, else Content-Type is application/json and Authorization is
\* Bearer <secretKey>; every attempt of the call sends the same headers
C21_MergedHeaders ==
    method = "request" =>
        \A i \in 1..Len(requests) :
            LET h == requests[i].headers
            IN  /\ DOMAIN h = {"Content-Type", "Authorization"}
                                \cup DOMAIN ConfigHeadersOf \cup DOMAIN CallHeadersOf
                /\ \A n \in DOMAIN h :
                     h[n] = IF n \in DOMAIN CallHeadersOf THEN CallHeadersOf[n]
                            ELSE IF n \in DOMAIN ConfigHeadersOf THEN ConfigHeadersOf[n]
                            ELSE IF n = "Content-Type" THEN <<"application/json">>
                            ELSE <<"Bearer", secretKey>>
                /\ h = requests[1].headers

\* C21 witness: a retried request() whose call and config both name
\* X-Request-Source; the call's value was sent twice
C21_Witness ==
    /\ method = "request"
    /\ Len(requests) = 2
    /\ "X-Request-Source" \in DOMAIN ConfigHeadersOf \cap DOMAIN CallHeadersOf
    /\ ConfigHeadersOf["X-Request-Source"] # CallHeadersOf["X-Request-Source"]
    /\ requests[2].headers["X-Request-Source"] = <<"call">>

C23_ConfigHeadersInAllRequests ==
    method # "none" =>
        \A i \in 1..Len(requests) :
            \A n \in DOMAIN ConfigHeadersOf :
                /\ n \in DOMAIN requests[i].headers
                /\ n \notin DOMAIN CallHeadersOf =>
                     requests[i].headers[n] = ConfigHeadersOf[n]

\* the url of every request sent so far starts with the address base and
\* goes on with the endpoint alone
AllUrlsStartWith(base) ==
    \A i \in 1..Len(requests) :
        /\ Len(requests[i].url) = Len(base) + 1
        /\ SubSeq(requests[i].url, 1, Len(base)) = base

C24_WitnessProduction ==
    /\ method = "request"
    /\ config.environment = Undefined
    /\ Len(requests) >= 1
    /\ requests[1].url = <<"https://", "api.chaindoc.io", "/api/v1/signatures/sign">>

\* C25: the url of every request of every constructed client uses the
\* scheme https
C25_HttpsOnly ==
    \A i \in 1..Len(requests) : requests[i].url[1] = "https://"

\* the outcome o of an attempt is a failure: the transport threw, or the
\* status is outside 200-299
FailedOutcome(o) ==
    o.thrown # Undefined \/ o.status[1] < 200 \/ o.status[1] > 299

\* C26: whatever the transport threw, what a call raises is a
\* ChaindocError, and a call whose final attempt failed is raised, never
\* returned
C26_OnlyChaindocErrors ==
    /\ pc = "raised" =>
         /\ result[1].kind = "throw"
         /\ RaisedError.cls = "ChaindocError"
         /\ DOMAIN RaisedError
              = {"cls", "name", "message", "statusCode", "response", "isRetryable"}
    /\ (Terminal /\ Len(received) > 0 /\ FailedOutcome(LastReceived)) => pc = "raised"

\* C27: the delay of every backoff sleep, whatever the retry policy of the
\* client and the attempt index, is at least 0
C27_DelayNonNegative == pc = "sleep" => sleeping[1] >= 0

\* the value the config gives for a field of the retry policy, if any
GivenRetry(field) ==
    IF config.retry = Undefined THEN Undefined ELSE config.retry[1][field]

\* C28: each of timeout, maxRetries, baseDelayMs and maxDelayMs is the
\* value the config gave, a 0 included, and where the config gave none it
\* is 30000, 3, 1000 and 10000, whatever the other fields are
C28_DefaultsPerField ==
    client = "constructed" =>
        /\ timeout = IF config.timeout = Undefined THEN 30000 ELSE config.timeout[1]
        /\ retryConfig.maxRetries =
             IF GivenRetry("maxRetries") = Undefined THEN 3
             ELSE GivenRetry("maxRetries")[1]
        /\ retryConfig.baseDelayMs =
             IF GivenRetry("baseDelayMs") = Undefined THEN 1000
             ELSE GivenRetry("baseDelayMs")[1]
        /\ retryConfig.maxDelayMs =
             IF GivenRetry("maxDelayMs") = Undefined THEN 10000
             ELSE GivenRetry("maxDelayMs")[1]

\* C28 witness: a config of timeout 0 and a retry policy that gives
\* maxRetries 1 and baseDelayMs 0 only made a client of timeout 0 and the
\* policy 1, 0, 10000
C28_Witness ==
    /\ client = "constructed"
    /\ config.timeout = Some(0)
    /\ config.retry # Undefined
    /\ config.retry[1].maxDelayMs = Undefined
    /\ timeout = 0
    /\ retryConfig = [maxRetries |-> 1, baseDelayMs |-> 0, maxDelayMs |-> 10000]

\* C28 witness: a retry policy that gives maxDelayMs 0 only left
\* maxRetries 3 and baseDelayMs 1000
C28_WitnessPartial ==
    /\ client = "constructed"
    /\ config.timeout = Undefined
    /\ retryConfig = [maxRetries |-> 3, baseDelayMs |-> 1000, maxDelayMs |-> 0]

\* C29: a call has made at most maxRetries + 1 attempts, at most 1 when it
\* is a request() with noRetry; the loop variable is 0 in the first attempt
\* and one more in each further attempt, and it stays below maxAttempts
C29_AttemptBudget ==
    method # "none" =>
        /\ attempts <= retryConfig.maxRetries + 1
        /\ (method = "request" /\ noRetry) => attempts <= 1
        /\ attempt = attempts - 1
        /\ attempt < maxAttempts

\* C29 witness: a call with maxRetries 2 raised after its third attempt,
\* the loop variable at 2
C29_Witness ==
    /\ pc = "raised"
    /\ retryConfig.maxRetries = 2
    /\ attempts = 3 /\ attempt = 2 /\ maxAttempts = 3

\* C29 witness: a request() with noRetry on a client of maxRetries 2 ended
\* after one attempt that failed retryably
C29_WitnessNoRetry ==
    /\ method = "request" /\ noRetry /\ Terminal
    /\ retryConfig.maxRetries = 2
    /\ attempts = 1 /\ attempt = 0
    /\ RetryableOutcome(LastReceived)

\* C30: a call sleeps exactly when its current attempt, not the last of
\* its budget, ended in a retryable outcome, and then for the delay of
\* that attempt's index; the sleeps taken are those of the indices 0, 1,
\* ... in order, one before each attempt but the first and none after the
\* attempt that ends the call
C30_SleepsBetweenAttempts ==
    method # "none" =>
        /\ (Handled /\ RetryableOutcome(LastReceived) /\ attempt < maxAttempts - 1)
             => pc = "sleep"
        /\ pc = "sleep" =>
             /\ Handled /\ RetryableOutcome(LastReceived) /\ attempt < maxAttempts - 1
             /\ \E k \in 0..(RandomDen - 1) :
                  sleeping = <<getRetryDelay(retryConfig, attempt, k)>>
        /\ pc # "sleep" => sleeping = << >>
        /\ sleepArgs = [i \in 1..(IF pc = "sleep" THEN attempts ELSE attempts - 1) |-> i - 1]

(***************************************************************************)
(* The two paths compared.                                                 *)
(***************************************************************************)
\* how the call L ended: nothing yet, a return of a value, or an error of
\* a status and a retryable flag
OutcomeOf(L) ==
    IF L.result = Undefined THEN [kind |-> "none"]
    ELSE IF L.result[1].kind = "return"
    THEN [kind |-> "return", value |-> L.result[1].value]
    ELSE [kind |-> "throw",
          statusCode |-> L.result[1].error[1].statusCode,
          isRetryable |-> L.result[1].error[1].isRetryable]

\* what the retry algorithm has done in the call L: where it stands, the
\* attempts made, the delay arguments of its sleeps, how it ended
Progress(L) ==
    [pc |-> L.pc, attempts |-> L.attempts, attempt |-> L.attempt,
     sleepArgs |-> L.sleepArgs, outcome |-> OutcomeOf(L)]

\* the call A is a request() with retries, the call B an uploadFiles(),
\* both between two handlers after the same outcomes of the transport
SameOutcomes(A, B) ==
    /\ A.method = "request" /\ ~A.noRetry
    /\ B.method = "uploadFiles"
    /\ A.received = B.received
    /\ A.response = B.response
    /\ A.pc # "json" /\ B.pc # "json"
    /\ A.pc = "fetch" <=> B.pc = "fetch"

\* C31: a request() with retries and an uploadFiles() on the same client
\* whose attempts received the same outcomes have made the same number of
\* attempts, slept with the same delay arguments, and stand or ended at the
\* same attempt with the same kind of result, the same value returned or
\* the same statusCode and isRetryable raised
C31_SameAlgorithm ==
    /\ SameOutcomes(Locals, parked) => Progress(Locals) = Progress(parked)
    /\ SameOutcomes(parked, Locals) => Progress(parked) = Progress(Locals)

\* C31 witness: both calls raised after a 503 and a connection reset, two
\* attempts and one sleep each, the messages of their errors differing
C31_Witness ==
    /\ SameOutcomes(Locals, parked)
    /\ pc = "raised" /\ parked.pc = "raised"
    /\ attempts = 2 /\ sleepArgs = <<0>>
    /\ received[1].status = Some(503)
    /\ received[2].thrown # Undefined
    /\ result # parked.result

(***************************************************************************)
(* What a call leaves behind.                                              *)
(***************************************************************************)
\* a step of a call leaves the fields of the constructed client as they are
ConfigKept ==
    client = "constructed" =>
        UNCHANGED <<baseUrl, secretKey, timeout, defaultHeaders, retryConfig>>

\* the running call, made after the call in parked has ended, is armed and
\* sent by its own options and the client's fields alone
NoCarryOver ==
    (parked.method # "none" /\ method = "request") =>
        /\ \A i \in 1..Len(deadlines) :
             deadlines[i] = IF optTimeout = Undefined THEN timeout ELSE optTimeout[1]
        /\ \A i \in 1..Len(requests) :
             /\ optHeaders = Undefined => requests[i].headers = defaultHeaders
             /\ optHeaders # Undefined =>
                  DOMAIN requests[i].headers = DOMAIN defaultHeaders \cup DOMAIN optHeaders[1]
             /\ requests[i].method = IF optMethod = Undefined THEN "GET" ELSE optMethod[1]

\* C32: no step of any call changes baseUrl, secretKey, timeout,
\* defaultHeaders or retryConfig of the client, and a call made after
\* another has ended takes nothing from the earlier call's timeout, headers
\* or method
C32_Frame == [][ConfigKept]_vars /\ []NoCarryOver

\* C32 witness: after a request() given timeout 7 and a header of its own
\* was retried and ended, a request() without options was retried with the
\* client's timeout and the client's headers
C32_Witness ==
    /\ parked.method = "request"
    /\ parked.optTimeout = Some(7) /\ parked.optHeaders # Undefined
    /\ parked.attempts = 2 /\ parked.pc = "raised"
    /\ method = "request" /\ optTimeout = Undefined /\ optHeaders = Undefined
    /\ attempts = 2
    /\ deadlines = <<timeout, timeout>>
    /\ timeout = DEFAULT_TIMEOUT
    /\ requests[2].headers = defaultHeaders
    /\ "X-Request-Source" \notin DOMAIN requests[2].headers

\* C33: every attempt of a request() given a body, whatever the value,
\* sends the JSON text of that value as its body, and every attempt of a
\* request() given none sends no body
C33_BodySerialized ==
    method = "request" =>
        \A i \in 1..Len(requests) :
            requests[i].body = IF optBody = Undefined THEN Undefined
                               ELSE Some(Stringify(optBody[1]))

\* C34: a call that raised an error whose isRetryable is true has made
\* every attempt of its budget: 1 for a request() with noRetry, otherwise
\* maxRetries + 1
C34_RetryableOnlyAfterBudget ==
    (pc = "raised" /\ RaisedError.isRetryable) =>
        attempts = IF method = "request" /\ noRetry THEN 1
                   ELSE retryConfig.maxRetries + 1

\* C34 witness: a call with maxRetries 2 raised the retryable error of a
\* 429 after its third attempt, having been answered 503 and a timeout
C34_Witness ==
    /\ pc = "raised" /\ RaisedError.isRetryable
    /\ RaisedError.statusCode = Some(429)
    /\ retryConfig.maxRetries = 2 /\ ~noRetry
    /\ attempts = 3
    /\ received[1].status = Some(503)
    /\ received[2].thrown = Some(AbortError)

\* the timers of the call L: none but that of the attempt whose fetch is
\* pending
TimersOf(L) ==
    /\ L.timers \subseteq {L.attempt}
    /\ L.timers # {} => (L.pc = "fetch" /\ L.attempt \in L.inFlight /\ ~L.aborted)
    /\ L.pc \in {"json", "sleep", "returned", "raised"} => L.timers = {}

\* C35: the only timer a call can have pending is that of the attempt
\* whose fetch has not settled: once the fetch has resolved or failed,
\* during the decoding and the backoff sleep, in every later attempt and
\* after the call has returned or raised, no timer of that attempt is left
C35_TimerPerAttempt == TimersOf(Locals) /\ TimersOf(parked)

\* C35 witness: the second attempt is in flight with its own timer, the
\* first having failed and its sleep being over
C35_Witness ==
    /\ pc = "fetch" /\ attempt = 1
    /\ timers = {1}
    /\ received[1].thrown # Undefined
    /\ sleepArgs = <<0>>

\* C35 witness: a call that was aborted by its timer on both attempts ended
\* with no timer left
C35_WitnessEnded ==
    /\ pc = "raised" /\ attempts = 2 /\ timers = {}
    /\ received[1].thrown = Some(AbortError)
    /\ received[2].thrown = Some(AbortError)

\* C36: a call that has raised has made at least one transport attempt,
\* whatever configuration the client was constructed from
C36_AttemptBeforeRaise == pc = "raised" => attempts >= 1 /\ Len(requests) >= 1

(***************************************************************************)
(* Two runs of one call.                                                   *)
(***************************************************************************)
\* the calls A and B are the same call: the same method with the same
\* options
SameCall(A, B) ==
    /\ A.method # "none" /\ A.method = B.method
    /\ A.noRetry = B.noRetry
    /\ A.optTimeout = B.optTimeout /\ A.optHeaders = B.optHeaders
    /\ A.optMethod = B.optMethod /\ A.optBody = B.optBody

\* every outcome the call L received has been handled, and no further
\* attempt has begun: L sleeps, or has ended
Settled(L) == L.pc \in {"sleep", "returned", "raised"}

\* the calls A and B received the same outcomes of the transport, the body
\* of the last response included
SameReceived(A, B) == A.received = B.received /\ A.response = B.response

\* C37: two runs of the same call on one client that have received and
\* handled the same outcomes of the transport stand at the same point after
\* the same number of attempts, the same sleeps begun, with the same value
\* returned or error raised, whatever delays the jitter gave them
C37_JitterOnlyDelays ==
    (SameCall(Locals, parked) /\ SameReceived(Locals, parked)
        /\ Settled(Locals) /\ Settled(parked))
    => /\ pc = parked.pc
       /\ attempts = parked.attempts
       /\ attempt = parked.attempt
       /\ sleepArgs = parked.sleepArgs
       /\ result = parked.result

\* C37 witness: two runs of one call sleep after the same failure, one for
\* less than baseDelayMs and one for longer
C37_Witness ==
    /\ SameCall(Locals, parked) /\ SameReceived(Locals, parked)
    /\ pc = "sleep" /\ parked.pc = "sleep"
    /\ Len(received) = 1
    /\ received[1].thrown # Undefined
    /\ sleeping[1] < retryConfig.baseDelayMs
    /\ parked.sleeping[1] > sleeping[1]

\* C37 witness: two runs of one call have ended with the same error after
\* the same two outcomes, a sleep between them
C37_WitnessEnded ==
    /\ SameCall(Locals, parked) /\ SameReceived(Locals, parked)
    /\ pc = "raised" /\ parked.pc = "raised"
    /\ attempts = 2 /\ sleepArgs = <<0>>

\* C38: every attempt of every call carries Authorization: Bearer
\* <secretKey>, whatever headers the config and the call gave
C38_BearerAlways ==
    method # "none" =>
        \A i \in 1..Len(requests) :
            /\ "Authorization" \in DOMAIN requests[i].headers
            /\ requests[i].headers["Authorization"] = <<"Bearer", secretKey>>

\* C38 amended: every attempt of every call carries an Authorization
\* header; an upload's is Bearer <secretKey> whatever the config gave, and
\* so is a request()'s when neither the call nor the config names
\* Authorization, the call's value being sent else if it gives one and the
\* config's if not
C38_BearerUnlessNamed ==
    method # "none" =>
        \A i \in 1..Len(requests) :
            /\ "Authorization" \in DOMAIN requests[i].headers
            /\ requests[i].headers["Authorization"] =
                 IF method = "request" /\ "Authorization" \in DOMAIN CallHeadersOf
                 THEN CallHeadersOf["Authorization"]
                 ELSE IF method = "request" /\ "Authorization" \in DOMAIN ConfigHeadersOf
                 THEN ConfigHeadersOf["Authorization"]
                 ELSE <<"Bearer", secretKey>>

\* C38 witness: a retried request() on a client whose config names
\* Authorization sent the config's value twice, not the Bearer value
C38_Witness ==
    /\ method = "request"
    /\ Len(requests) = 2
    /\ "Authorization" \in DOMAIN ConfigHeadersOf
    /\ "Authorization" \notin DOMAIN CallHeadersOf
    /\ requests[2].headers["Authorization"] = <<"Basic", "abc">>

\* C38 witness: a retried upload on the same kind of client sent the Bearer
\* value
C38_WitnessUpload ==
    /\ method = "uploadFiles"
    /\ Len(requests) = 2
    /\ "Authorization" \in DOMAIN ConfigHeadersOf
    /\ requests[2].headers["Authorization"] = <<"Bearer", secretKey>>

\* C38 witness: a request() whose call names Authorization, on a client
\* whose config names it too, sent the call's value
C38_WitnessCall ==
    /\ method = "request"
    /\ Len(requests) >= 1
    /\ "Authorization" \in DOMAIN ConfigHeadersOf \cap DOMAIN CallHeadersOf
    /\ requests[1].headers["Authorization"] = <<"Token", "xyz">>

(***************************************************************************)
(* A thrown value that is not an Error.                                    *)
(***************************************************************************)
\* the i-th attempt of the call L failed with a value that is not an Error
ThrewValue(L, i) ==
    /\ L.received[i].thrown # Undefined
    /\ L.received[i].thrown[1].cls = "value"

\* what the call L has done if an attempt of it failed with a value that
\* is not an Error: that attempt was its last, and the call raised the
\* error of line 209
RaisedUnknown(L) ==
    \A i \in 1..Len(L.received) :
        ThrewValue(L, i) =>
            /\ i = Len(L.received)
            /\ L.attempts = i
            /\ L.pc = "raised"
            /\ L.result = Some([kind |-> "throw", value |-> Undefined,
                                error |-> Some(ChaindocError(<<"Unknown error occurred">>,
                                                             Undefined, Undefined, FALSE))])

\* C39: a call one of whose attempts failed with a thrown value that is not
\* an Error has raised on that attempt, attempts remaining or not, an error
\* with message "Unknown error occurred", no statusCode and isRetryable
\* false
C39_UnknownErrorAtOnce == RaisedUnknown(Locals) /\ RaisedUnknown(parked)

\* C39 witness: with two attempts allowed, the first fetch of a call
\* rejected with a value that is not an Error, and the call raised after
\* that one attempt
C39_Witness ==
    /\ pc = "raised"
    /\ maxAttempts = 2 /\ attempts = 1
    /\ ThrewValue(Locals, 1)
    /\ result[1].error[1].message = <<"Unknown error occurred">>

\* C39 witness: the same on an upload's second attempt after a 503, the
\* first call on the client having ended the same way
C39_WitnessUpload ==
    /\ method = "uploadFiles" /\ pc = "raised"
    /\ attempts = 2
    /\ received[1].status = Some(503)
    /\ ThrewValue(Locals, 2)
    /\ parked.method = "request" /\ ThrewValue(parked, 1)

====
